---------------------------- MODULE Spec2Model ----------------------------
(***************************************************************************)
(* A model of the tweet-ingestion bot of src/index.js: the poll loop       *)
(* (processTweets / pollTweets), the state files, the retry helper         *)
(* (withRetry) and the media cascade.                                      *)
(*                                                                         *)
(* processTweets is an async function: it runs without interruption from   *)
(* one await to the next.  Every action of the poll-loop specification is  *)
(* one such run: it starts where a promise settles and goes on, through    *)
(* every statement the code executes, to the next await or to the return.  *)
(***************************************************************************)
EXTENDS Integers, Sequences, FiniteSets, TLC

(***************************************************************************)
(* Bounds of the model.                                                    *)
(***************************************************************************)
\* post identifiers are 1..MaxId
MaxId == 2
\* a feed response carries at most MaxBatch posts
MaxBatch == 2
\* the wall clock runs from one to MaxClock ticks
MaxClock == 2
\* number of processTweets invocations that may be in flight at once
MaxInFlight == 2
\* number of process crashes in one behaviour
MaxCrashes == 1

(***************************************************************************)
(* Program constants.                                                      *)
(***************************************************************************)
\* src/index.js:29
MAX_RETRIES == 3
\* src/index.js:211, milliseconds
ONE_MINUTE == 60 * 1000
\* one tick of the model's clock, in milliseconds: two freshness windows, so
\* that a post is inside the window in the tick of its creation and outside
\* it from the next tick on
Tick == 2 * ONE_MINUTE

Ids == 1..MaxId
Slots == 1..MaxInFlight

\* JavaScript null; a present value v is <<v>>
Null == <<>>
Some(v) == <<v>>

VARIABLES
  \* ---- the environment
  now,                 \* Date.now(), milliseconds
  posts,               \* the posts that exist upstream: id -> [created_at, user]
  processedIdsFile,    \* PROCESSED_IDS_FILE on disk
  stateFile,           \* STATE_FILE on disk
  \* ---- the process
  phase,               \* "first": startup cycle awaited; "polling": interval set; "down"
  lastProcessedIds,    \* module-level object, as the set of its keys
  lastFetchTimestamp,  \* module-level, Null or Some(ms)
  cycle,               \* per in-flight processTweets invocation: its locals and position
  \* ---- history
  crashes,             \* crashes so far
  embedsSent,          \* id -> embed messages delivered to the channel, ever
  embedsLife,          \* id -> embed messages delivered by the running process
  failed,              \* ids whose processing raised an error in the running process
  \* ---- one call of withRetry (the retry specification)
  retry,               \* its arguments, locals and position
  rTrace,              \* how each invocation of the operation settled, in order
  \* ---- the media cascade of one post (the media specification)
  media,               \* its locals and position
  \* ---- two runs on the same feed (the replay specification)
  twin,                \* an uninterrupted run and a restarted one
  \* ---- the reset utility (src/reset.js)
  reset,               \* its runs and what the last one met
  \* ---- the startup of the bot (src/index.js:668-692)
  boot,                \* the configuration and how far the startup got
  \* ---- one invocation seen from the feed's answer (the feed specification)
  feed,                \* the attempts, the answer and what the invocation did
  \* ---- the videos of one invocation's posts (the cache specification)
  cache                \* the files in the cache directory and their cleanup

envVars == <<now, posts, processedIdsFile, stateFile>>
procVars == <<phase, lastProcessedIds, lastFetchTimestamp, cycle>>
histVars == <<crashes, embedsSent, embedsLife, failed>>
pollVars == <<envVars, procVars, histVars>>
retryVars == <<retry, rTrace>>
mediaVars == <<media>>
twinVars == <<twin>>
resetVars == <<reset>>
bootVars == <<boot>>
feedVars == <<feed>>
cacheVars == <<cache>>
\* what the poll loop leaves alone
partVars == <<retryVars, mediaVars, twinVars, resetVars, bootVars, feedVars, cacheVars>>
vars == <<pollVars, retryVars, mediaVars, twinVars, resetVars, bootVars, feedVars, cacheVars>>

(***************************************************************************)
(* State files (src/index.js:44-76).                                       *)
(***************************************************************************)
\* a file is absent, or holds text that JSON.parse accepts (valid) or rejects
NoFile == [exists |-> FALSE, valid |-> TRUE, data |-> {}]
NoStateFile == [exists |-> FALSE, valid |-> TRUE, lastFetchTimestamp |-> Null]

\* line 67: JSON.stringify(lastProcessedIds) written to PROCESSED_IDS_FILE;
\* the object maps each id (a property name) to true, and JSON keeps both
WriteIds(ids) == [exists |-> TRUE, valid |-> TRUE, data |-> ids]
\* lines 70-72: {lastFetchTimestamp} written to STATE_FILE
WriteState(ts) == [exists |-> TRUE, valid |-> TRUE, lastFetchTimestamp |-> ts]

\* line 48 throws on text that is not JSON, and the catch of line 58 ends the load
ParseFails(f) == f.exists /\ ~f.valid
\* the ids file is not read
LoadNothing(f) == {}
\* lines 46-50
LoadIds(f) == IF f.exists /\ f.valid THEN f.data ELSE {}
\* line 55: state.lastFetchTimestamp || null  (0 is falsy)
OrNull(v) == IF v = Null \/ v = Some(0) THEN Null ELSE v
\* the state file read whatever became of the ids file
LoadTimestampAlone(idsFile, f) ==
  IF ~f.exists \/ ParseFails(f) THEN Null
  ELSE OrNull(f.lastFetchTimestamp)
\* lines 52-57, reached only when lines 46-50 did not throw
LoadTimestamp(idsFile, f) ==
  IF ParseFails(idsFile) \/ ~f.exists \/ ParseFails(f) THEN Null
  ELSE OrNull(f.lastFetchTimestamp)

(***************************************************************************)
(* Posts and batches.                                                      *)
(***************************************************************************)
PostRec(p) == [id |-> p, created_at |-> posts[p].created_at, user |-> posts[p].user]
PostRecs == {PostRec(p) : p \in DOMAIN posts}
\* what the feed may return: any sequence of existing posts, repeats included
Batches == UNION {[1..n -> PostRecs] : n \in 0..MaxBatch}

SeqIds(tw) == {tw[i].id : i \in 1..Len(tw)}

(***************************************************************************)
(* Sort and recency filter (src/index.js:202-216).                         *)
(***************************************************************************)
RECURSIVE Insert(_, _)
Insert(s, x) ==
  IF s = <<>> THEN <<x>>
  ELSE IF Head(s).created_at >= x.created_at
         THEN <<Head(s)>> \o Insert(Tail(s), x)
         ELSE <<x>> \o s

\* lines 203-207: newest first, Array.prototype.sort is stable
RECURSIVE SortTweets(_)
SortTweets(tw) ==
  IF tw = <<>> THEN <<>>
  ELSE Insert(SortTweets(SubSeq(tw, 1, Len(tw) - 1)), tw[Len(tw)])

\* the comparison turned round
IsOld(tweet, currentTime) == (currentTime - tweet.created_at) >= ONE_MINUTE
\* lines 214-215
IsRecent(tweet, currentTime) == (currentTime - tweet.created_at) <= ONE_MINUTE

\* lines 213-216
RECURSIVE FilterRecent(_, _)
FilterRecent(tw, currentTime) ==
  IF tw = <<>> THEN <<>>
  ELSE (IF IsRecent(Head(tw), currentTime) THEN <<Head(tw)>> ELSE <<>>)
         \o FilterRecent(Tail(tw), currentTime)

(***************************************************************************)
(* The per-post loop (src/index.js:228-243), from position i up to the     *)
(* first post that needs a network call, or to the end of the list.        *)
(***************************************************************************)
\* the check left out
NeverProcessed(seen, id) == FALSE
\* line 230
AlreadyProcessed(seen, id) == id \in seen

\* the mark left out
MarkNothing(seen, id) == seen
\* the mark replaces the set
MarkAlone(seen, id) == {id}
\* line 235
MarkProcessed(seen, id) == seen \cup {id}

\* marks only the posts inside the freshness window
MarkRecentOnly(seen, tweets) == seen \cup SeqIds(FilterRecent(tweets, now))
\* lines 186-188: the first run marks every post of the batch
MarkAll(seen, tweets) == seen \cup SeqIds(tweets)

\* the mark comes after the test of the user data
RECURSIVE LoopMarksLate(_, _, _)
LoopMarksLate(seen, rt, i) ==
  IF i > Len(rt) THEN [seen |-> seen, idx |-> i, next |-> "end"]
  ELSE IF AlreadyProcessed(seen, rt[i].id) THEN LoopMarksLate(seen, rt, i + 1)
  ELSE IF ~rt[i].user THEN LoopMarksLate(seen, rt, i + 1)
  ELSE [seen |-> MarkProcessed(seen, rt[i].id), idx |-> i, next |-> "detail"]

RECURSIVE LoopFrom(_, _, _)
LoopFrom(seen, rt, i) ==
  IF i > Len(rt) THEN [seen |-> seen, idx |-> i, next |-> "end"]
  ELSE IF AlreadyProcessed(seen, rt[i].id) THEN LoopFrom(seen, rt, i + 1)
  ELSE IF ~rt[i].user THEN LoopFrom(MarkProcessed(seen, rt[i].id), rt, i + 1)
  ELSE [seen |-> MarkProcessed(seen, rt[i].id), idx |-> i, next |-> "detail"]

(***************************************************************************)
(* An invocation of processTweets.                                         *)
(***************************************************************************)
IdleCycle ==
  [pc |-> "idle", tweets |-> <<>>, currentFetchTime |-> 0,
   recentTweets |-> <<>>, idx |-> 0, hasFoundVideo |-> FALSE, tier |-> "none"]

\* line 172: processTweets has called fetchTweets and awaits it
FetchingCycle == [IdleCycle EXCEPT !.pc = "fetch"]

Current(c) == cycle[c].recentTweets[cycle[c].idx]

PollInit ==
  /\ now = Tick
  /\ posts = <<>>
  /\ processedIdsFile = NoFile
  /\ stateFile = NoStateFile
  /\ phase = "first"
  /\ lastProcessedIds = LoadIds(processedIdsFile)
  /\ lastFetchTimestamp = LoadTimestamp(processedIdsFile, stateFile)
  /\ cycle = [c \in Slots |-> IF c = 1 THEN FetchingCycle ELSE IdleCycle]
  /\ crashes = 0
  /\ embedsSent = [p \in Ids |-> 0]
  /\ embedsLife = [p \in Ids |-> 0]
  /\ failed = {}

\* processTweets returns (every path: its outer try/catch lets nothing out);
\* the startup invocation returning lets pollTweets set the interval (656-665)
Return(c) ==
  /\ cycle' = [cycle EXCEPT ![c] = IdleCycle]
  /\ phase' = IF phase = "first" THEN "polling" ELSE phase

\* a save that leaves the ids file as it was
SaveTimestampOnly(ids, ts) ==
  /\ processedIdsFile' = processedIdsFile
  /\ stateFile' = WriteState(ts)

\* lines 64-76
SaveState(ids, ts) ==
  /\ processedIdsFile' = WriteIds(ids)
  /\ stateFile' = WriteState(ts)

\* lines 228-243 and 622-629: the loop goes on from position i with locals cy
Continue(c, cy, i) ==
  LET r == LoopFrom(lastProcessedIds, cy.recentTweets, i) IN
    /\ lastProcessedIds' = r.seen
    /\ IF r.next = "detail"
         THEN /\ cycle' = [cycle EXCEPT ![c] =
                   [cy EXCEPT !.pc = "detail", !.idx = r.idx,
                              !.hasFoundVideo = FALSE, !.tier = "none"]]
              /\ UNCHANGED <<lastFetchTimestamp, phase, processedIdsFile, stateFile>>
         ELSE /\ lastFetchTimestamp' = Some(cy.currentFetchTime)
              /\ SaveState(r.seen, Some(cy.currentFetchTime))
              /\ Return(c)

(***************************************************************************)
(* The environment.                                                        *)
(***************************************************************************)
AdvanceClock ==
  /\ now + Tick <= MaxClock * Tick
  /\ now' = now + Tick
  /\ UNCHANGED <<posts, processedIdsFile, stateFile, procVars, histVars>>
  /\ UNCHANGED partVars

\* an author posts: the next identifier, created now
NewPost(u) ==
  LET p == Cardinality(DOMAIN posts) + 1 IN
    /\ p \in Ids
    /\ posts' = [q \in DOMAIN posts \cup {p} |->
                   IF q = p THEN [created_at |-> now, user |-> u] ELSE posts[q]]
    /\ UNCHANGED <<now, processedIdsFile, stateFile, procVars, histVars>>
  /\ UNCHANGED partVars

(***************************************************************************)
(* pollTweets (src/index.js:659-665): the interval fires.                  *)
(***************************************************************************)
IntervalFires(c) ==
  /\ phase = "polling"
  /\ cycle[c].pc = "idle"
  /\ \A d \in Slots : d < c => cycle[d].pc # "idle"
  /\ cycle' = [cycle EXCEPT ![c] = FetchingCycle]
  /\ UNCHANGED <<envVars, phase, lastProcessedIds, lastFetchTimestamp, histVars>>
  /\ UNCHANGED partVars

(***************************************************************************)
(* fetchTweets (src/index.js:100-122) under withRetry.                     *)
(***************************************************************************)
\* fetchTweets rejects, its retries used up: caught at 631-633
FetchFails(c) ==
  /\ cycle[c].pc = "fetch"
  /\ Return(c)
  /\ UNCHANGED <<envVars, lastProcessedIds, lastFetchTimestamp, histVars>>
  /\ UNCHANGED partVars

\* status 200 with a truthy data.data that is no array (174-178)
FetchNotArray(c) ==
  /\ cycle[c].pc = "fetch"
  /\ Return(c)
  /\ UNCHANGED <<envVars, lastProcessedIds, lastFetchTimestamp, histVars>>
  /\ UNCHANGED partVars

\* status 200 with an array (or nothing, read as []): lines 172-196
FetchResolves(c, tweets) ==
  /\ cycle[c].pc = "fetch"
  /\ tweets \in Batches
  /\ IF lastFetchTimestamp = Null
       THEN \* first run, lines 184-193
            /\ lastProcessedIds' = MarkAll(lastProcessedIds, tweets)
            /\ lastFetchTimestamp' = Some(now)
            /\ SaveState(MarkAll(lastProcessedIds, tweets), Some(now))
            /\ Return(c)
       ELSE \* line 196: await client.channels.fetch
            /\ cycle' = [cycle EXCEPT ![c].pc = "channel", ![c].tweets = tweets,
                                      ![c].currentFetchTime = now]
            /\ UNCHANGED <<lastProcessedIds, lastFetchTimestamp, phase,
                           processedIdsFile, stateFile>>
  /\ UNCHANGED <<now, posts, histVars>>
  /\ UNCHANGED partVars

(***************************************************************************)
(* client.channels.fetch settles (src/index.js:196-243).                   *)
(***************************************************************************)
\* it throws (631-633) or yields nothing (197-200)
ChannelMissing(c) ==
  /\ cycle[c].pc = "channel"
  /\ Return(c)
  /\ UNCHANGED <<envVars, lastProcessedIds, lastFetchTimestamp, histVars>>
  /\ UNCHANGED partVars

\* the fast return with a save, which line 221 does not do
ChannelResolvesAndSaves(c) ==
  /\ cycle[c].pc = "channel"
  /\ LET rt == FilterRecent(SortTweets(cycle[c].tweets), now)
         cy == [cycle[c] EXCEPT !.recentTweets = rt]
     IN IF Len(rt) = 0
          THEN /\ lastFetchTimestamp' = Some(cy.currentFetchTime)
               /\ SaveState(lastProcessedIds, Some(cy.currentFetchTime))
               /\ Return(c)
               /\ UNCHANGED lastProcessedIds
          ELSE Continue(c, cy, 1)
  /\ UNCHANGED <<now, posts, histVars>>
  /\ UNCHANGED partVars

ChannelResolves(c) ==
  /\ cycle[c].pc = "channel"
  /\ LET rt == FilterRecent(SortTweets(cycle[c].tweets), now)
         cy == [cycle[c] EXCEPT !.recentTweets = rt]
     IN IF Len(rt) = 0
          THEN \* lines 219-223
               /\ lastFetchTimestamp' = Some(cy.currentFetchTime)
               /\ Return(c)
               /\ UNCHANGED <<lastProcessedIds, processedIdsFile, stateFile>>
          ELSE Continue(c, cy, 1)
  /\ UNCHANGED <<now, posts, histVars>>
  /\ UNCHANGED partVars

(***************************************************************************)
(* Processing of one post (src/index.js:237-620).  The media a post and    *)
(* its detail record carry decide which awaits the cascade reaches; here   *)
(* that content is the input `path`:                                      *)
(*   "detailVideo"  a detail tier selects an MP4 and downloads (323/349/379)*)
(*   "rawVideo"     no media from the detail record, the post's own        *)
(*                  extended_entities select an MP4 and download (467)     *)
(*   "noVideo"      no download is attempted                               *)
(* (the cascade itself is modelled by the media specification below).      *)
(***************************************************************************)
DetailOutcomes == {"error", "absent", "record"}
MediaPaths == {"detailVideo", "rawVideo", "noVideo"}

\* lines 444-588 once no download (or no further download) is pending:
\* the embed is built and channel.send is awaited
ToEmbed(c, found) ==
  cycle' = [cycle EXCEPT ![c].pc = "embed", ![c].hasFoundVideo = found,
                         ![c].tier = "none"]

\* downloadMedia is awaited in a detail tier or in the raw fallback
ToDownload(c, t) ==
  cycle' = [cycle EXCEPT ![c].pc = "download", ![c].tier = t]

\* fetchSingleTweet settles (307): d = "error" after its retries (439-442),
\* "absent" when data.data is missing, "record" otherwise
DetailSettles(c, d, path) ==
  /\ cycle[c].pc = "detail"
  /\ d \in DetailOutcomes /\ path \in MediaPaths
  /\ path = "detailVideo" => d = "record"
  /\ CASE path = "detailVideo" -> ToDownload(c, "detail")
       [] path = "rawVideo" -> ToDownload(c, "raw")
       [] OTHER -> ToEmbed(c, FALSE)
  /\ failed' = IF d = "error" THEN failed \cup {Current(c).id} ELSE failed
  /\ UNCHANGED <<envVars, phase, lastProcessedIds, lastFetchTimestamp,
                 crashes, embedsSent, embedsLife>>
  /\ UNCHANGED partVars

\* downloadMedia settles: ok (325-334, 469-478) or, after its retries, an
\* error caught at 439 (detail tier, the raw fallback follows) or at 480
DownloadSettles(c, ok, path) ==
  /\ cycle[c].pc = "download"
  /\ path \in {"rawVideo", "noVideo"}
  /\ IF ok
       THEN /\ path = "noVideo"
            /\ ToEmbed(c, TRUE)
       ELSE IF cycle[c].tier = "detail" /\ path = "rawVideo"
              THEN ToDownload(c, "raw")
              ELSE /\ path = "noVideo"
                   /\ ToEmbed(c, FALSE)
  /\ failed' = IF ok THEN failed ELSE failed \cup {Current(c).id}
  /\ UNCHANGED <<envVars, phase, lastProcessedIds, lastFetchTimestamp,
                 crashes, embedsSent, embedsLife>>
  /\ UNCHANGED partVars

\* the file is sent whether or not the embed was delivered
EmbedSettlesFileAnyway(c, ok) ==
  /\ cycle[c].pc = "embed"
  /\ LET p == Current(c).id IN
       /\ embedsSent' = IF ok THEN [embedsSent EXCEPT ![p] = @ + 1] ELSE embedsSent
       /\ embedsLife' = IF ok THEN [embedsLife EXCEPT ![p] = @ + 1] ELSE embedsLife
       /\ failed' = IF ok THEN failed ELSE failed \cup {p}
  /\ IF cycle[c].hasFoundVideo
       THEN \* line 598: await channel.send({files})
            /\ cycle' = [cycle EXCEPT ![c].pc = "video"]
            /\ UNCHANGED <<lastProcessedIds, lastFetchTimestamp, phase,
                           processedIdsFile, stateFile>>
       ELSE Continue(c, cycle[c], cycle[c].idx + 1)
  /\ UNCHANGED <<now, posts, crashes>>
  /\ UNCHANGED partVars

\* channel.send({embeds}) settles (588): delivered, or an error caught at 617
EmbedSettles(c, ok) ==
  /\ cycle[c].pc = "embed"
  /\ LET p == Current(c).id IN
       /\ embedsSent' = IF ok THEN [embedsSent EXCEPT ![p] = @ + 1] ELSE embedsSent
       /\ embedsLife' = IF ok THEN [embedsLife EXCEPT ![p] = @ + 1] ELSE embedsLife
       /\ failed' = IF ok THEN failed ELSE failed \cup {p}
  /\ IF ok /\ cycle[c].hasFoundVideo
       THEN \* line 598: await channel.send({files})
            /\ cycle' = [cycle EXCEPT ![c].pc = "video"]
            /\ UNCHANGED <<lastProcessedIds, lastFetchTimestamp, phase,
                           processedIdsFile, stateFile>>
       ELSE Continue(c, cycle[c], cycle[c].idx + 1)
  /\ UNCHANGED <<now, posts, crashes>>
  /\ UNCHANGED partVars

\* channel.send({files}) settles (598-614): sent, or an error caught at 612
VideoSettles(c, ok) ==
  /\ cycle[c].pc = "video"
  /\ failed' = IF ok THEN failed ELSE failed \cup {Current(c).id}
  /\ Continue(c, cycle[c], cycle[c].idx + 1)
  /\ UNCHANGED <<now, posts, crashes, embedsSent, embedsLife>>
  /\ UNCHANGED partVars

(***************************************************************************)
(* The process dies (at any point) and is started again.                   *)
(***************************************************************************)
Crash ==
  /\ phase # "down"
  /\ crashes < MaxCrashes
  /\ crashes' = crashes + 1
  /\ phase' = "down"
  /\ cycle' = [c \in Slots |-> IdleCycle]
  /\ lastProcessedIds' = {}
  /\ lastFetchTimestamp' = Null
  /\ embedsLife' = [p \in Ids |-> 0]
  /\ failed' = {}
  /\ UNCHANGED <<envVars, embedsSent>>
  /\ UNCHANGED partVars

\* module load (33-61), login, ready, pollTweets: the startup cycle begins
Restart ==
  /\ phase = "down"
  /\ lastProcessedIds' = LoadIds(processedIdsFile)
  /\ lastFetchTimestamp' = LoadTimestamp(processedIdsFile, stateFile)
  /\ phase' = "first"
  /\ cycle' = [c \in Slots |-> IF c = 1 THEN FetchingCycle ELSE IdleCycle]
  /\ UNCHANGED <<envVars, histVars>>
  /\ UNCHANGED partVars

\* the world outside the process
Environment ==
  \/ AdvanceClock
  \/ \E u \in BOOLEAN : NewPost(u)

\* one run of invocation c, from a settled promise to the next await
CycleStep(c) ==
  \/ IntervalFires(c)
  \/ FetchFails(c)
  \/ FetchNotArray(c)
  \/ \E tweets \in Batches : FetchResolves(c, tweets)
  \/ ChannelMissing(c)
  \/ ChannelResolves(c)
  \/ \E d \in DetailOutcomes : \E m \in MediaPaths : DetailSettles(c, d, m)
  \/ \E ok \in BOOLEAN : \E m \in MediaPaths : DownloadSettles(c, ok, m)
  \/ \E ok \in BOOLEAN : EmbedSettles(c, ok)
  \/ \E ok \in BOOLEAN : VideoSettles(c, ok)

(***************************************************************************)
(* withRetry (src/index.js:79-97): one call, from await to await.          *)
(***************************************************************************)
\* largest maxRetries a call is given
MaxAttempts == 3
\* the operation rejects with one of the errors 1..MaxErrors
MaxErrors == 3
\* the operation resolves with one of the values 1..MaxValues
MaxValues == 2

Errors == 1..MaxErrors
Values == 1..MaxValues

\* withRetry is not running
NoRetry ==
  [pc |-> "none", maxRetries |-> 0, attempt |-> 0, lastError |-> Null,
   calls |-> 0, delays |-> 0, result |-> Null]

\* a delay after every failure, the last one too
AlwaysDelay(attempt, maxRetries) == TRUE
\* no delay at all
NeverDelay(attempt, maxRetries) == FALSE
\* line 89
ShouldDelay(attempt, maxRetries) == attempt < maxRetries

\* lines 82-84 and 96: the loop test for `attempt`, then fn() is invoked and
\* awaited, or lastError is thrown
EnterAttempt(r, attempt) ==
  IF attempt <= r.maxRetries
    THEN [r EXCEPT !.pc = "call", !.attempt = attempt, !.calls = @ + 1]
    ELSE [r EXCEPT !.pc = "thrown", !.attempt = attempt, !.result = r.lastError]

\* withRetry(fn, n) is called: lines 80-84
RetryInit ==
  /\ \E n \in 0..MaxAttempts :
       retry = EnterAttempt([NoRetry EXCEPT !.maxRetries = n], 1)
  /\ rTrace = <<>>

\* fn() resolves with v: line 84 returns it
FnResolves(v) ==
  /\ retry.pc = "call"
  /\ retry' = [retry EXCEPT !.pc = "returned", !.result = Some(v)]
  /\ rTrace' = Append(rTrace, [ok |-> TRUE, val |-> v])
  /\ UNCHANGED <<pollVars, mediaVars, twinVars, resetVars, bootVars, feedVars, cacheVars>>

\* fn() rejects with e: lines 85-93, then the next iteration or line 96
FnRejects(e) ==
  /\ retry.pc = "call"
  /\ rTrace' = Append(rTrace, [ok |-> FALSE, val |-> e])
  /\ LET r == [retry EXCEPT !.lastError = Some(e)] IN
       IF ShouldDelay(r.attempt, r.maxRetries)
         THEN retry' = [r EXCEPT !.pc = "delay", !.delays = @ + 1]
         ELSE retry' = EnterAttempt(r, r.attempt + 1)
  /\ UNCHANGED <<pollVars, mediaVars, twinVars, resetVars, bootVars, feedVars, cacheVars>>

\* the timer of line 91 fires: the next iteration
DelayElapses ==
  /\ retry.pc = "delay"
  /\ retry' = EnterAttempt(retry, retry.attempt + 1)
  /\ UNCHANGED rTrace
  /\ UNCHANGED <<pollVars, mediaVars, twinVars, resetVars, bootVars, feedVars, cacheVars>>

RetryNext ==
  \/ \E v \in Values : FnResolves(v)
  \/ \E e \in Errors : FnRejects(e)
  \/ DelayElapses

(***************************************************************************)
(* The media cascade of one post (src/index.js:299-577).  The cascade of   *)
(* a post runs alone between the marking of the post and the sending of    *)
(* its embed; each step below is one block of the cascade and reads the    *)
(* fields of the feed's answer that the block reads, in the code's order.  *)
(***************************************************************************)
\* longest list of video variants
MaxVariants == 3
\* longest list of media entries (mediaDetails, extended_entities.media)
MaxMedia == 2
\* longest list of photos
MaxPhotos == 2

\* bitrates of MP4 variants: absent, or one of two values
Mp4Rates == {Null, Some(100), Some(500)}
\* a variant is MP4 or not (v.type / v.src in lines 317 and 343,
\* content_type in lines 371 and 459) and may carry a bitrate
Variants ==
  [mp4 : {TRUE}, bitrate : Mp4Rates] \cup {[mp4 |-> FALSE, bitrate |-> Some(900)]}
VariantLists == UNION {[1..n -> Variants] : n \in 0..MaxVariants}
\* a video object or video_info: absent, or holding a list of variants
\* (a missing list is skipped like an empty one, lines 315, 342, 374, 462)
VideoInputs == {Null} \cup {Some(vs) : vs \in VariantLists}

\* an entry of mediaDetails or of extended_entities.media; animated_gif is
\* handled as video; url tells whether media_url_https / media_url is set
MediaItems ==
  [type : {"video"}, variants : VideoInputs, url : BOOLEAN]
    \cup [type : {"photo"}, variants : {Null}, url : BOOLEAN]
MediaLists == UNION {[1..n -> MediaItems] : n \in 0..MaxMedia}
\* a photo of detailedTweet.photos: does its url contain 'media/' (line 403)
PhotoLists == UNION {[1..n -> BOOLEAN] : n \in 0..MaxPhotos}
\* tweet.entities: absent, or telling whether media[0] has an url (509),
\* whether some url carries images (520), whether some url is a photo link (540)
EntityInputs ==
  {Null} \cup {Some(e) : e \in [mediaUrl : BOOLEAN, images : BOOLEAN, links : BOOLEAN]}

\* lines 372 and 460: (bitrate || 0)
Rate(v) == IF v.bitrate = Null THEN 0 ELSE v.bitrate[1]

\* lines 317 and 343: Array.prototype.find, the first MP4 variant
FindMp4(variants) ==
  LET hits == {i \in 1..Len(variants) : variants[i].mp4}
  IN  IF hits = {} THEN Null
      ELSE Some(variants[CHOOSE i \in hits : \A j \in hits : i <= j])

IsMp4(v) == v.mp4
\* lines 371 and 459
FilterMp4(variants) == SelectSeq(variants, IsMp4)

RECURSIVE InsertRate(_, _)
InsertRate(s, x) ==
  IF s = <<>> THEN <<x>>
  ELSE IF Rate(Head(s)) >= Rate(x)
         THEN <<Head(s)>> \o InsertRate(Tail(s), x)
         ELSE <<x>> \o s

\* lines 372 and 460: sort by bitrate, highest first (the sort is stable)
RECURSIVE SortByBitrate(_)
SortByBitrate(variants) ==
  IF variants = <<>> THEN <<>>
  ELSE InsertRate(SortByBitrate(SubSeq(variants, 1, Len(variants) - 1)),
                  variants[Len(variants)])

\* lines 370-375 and 458-463: mp4Variants[0]
BestMp4(variants) ==
  LET mp4Variants == SortByBitrate(FilterMp4(variants))
  IN  IF Len(mp4Variants) > 0 THEN Some(mp4Variants[1]) ELSE Null

\* lines 300-303, and the call of line 307 awaited
NewCascade ==
  [pc |-> "fetchSingleTweet",
   hasFoundImage |-> FALSE, hasFoundVideo |-> FALSE,
   tier |-> "none",          \* the tier whose video is being downloaded
   variants |-> <<>>,        \* the list the variant was chosen from
   chosen |-> Null,          \* the chosen variant
   mediaDetails |-> <<>>,    \* detailedTweet.mediaDetails, once read
   extended |-> <<>>,        \* tweet.extended_entities.media, once read
   image |-> "none",         \* the source of the embed's image
   entry |-> 0,              \* the detail entry it was taken from (399-437)
   passedOver |-> FALSE,     \* a mediaDetails photo was there and not looked at
   containsMedia |-> FALSE]  \* the footer says 'Contains media'

MediaInit == media = NewCascade

DetailTiers == {"video", "parent", "mediaDetails"}

\* the await of downloadMedia (lines 323, 349, 379, 467)
Download(m, t, variants, pick) ==
  [m EXCEPT !.pc = "download", !.tier = t, !.variants = variants, !.chosen = pick]

\* line 307 settles; an error goes to the catch of line 439, an answer
\* without data past the test of line 311
FetchSingleTweetSettles(d) ==
  /\ media.pc = "fetchSingleTweet"
  /\ media' = [media EXCEPT !.pc = IF d = "record" THEN "detailVideo" ELSE "rawExtended"]
  /\ UNCHANGED <<pollVars, retryVars, twinVars, resetVars, bootVars, feedVars, cacheVars>>

\* lines 313-323
DetailVideo(video) ==
  /\ media.pc = "detailVideo"
  /\ LET pick == IF video # Null /\ ~media.hasFoundVideo /\ Len(video[1]) > 0
                   THEN FindMp4(video[1]) ELSE Null
     IN  media' = IF pick # Null THEN Download(media, "video", video[1], pick)
                  ELSE [media EXCEPT !.pc = "parentVideo"]
  /\ UNCHANGED <<pollVars, retryVars, twinVars, resetVars, bootVars, feedVars, cacheVars>>

\* lines 340-349
ParentVideo(video) ==
  /\ media.pc = "parentVideo"
  /\ LET pick == IF ~media.hasFoundVideo /\ video # Null /\ Len(video[1]) > 0
                   THEN FindMp4(video[1]) ELSE Null
     IN  media' = IF pick # Null THEN Download(media, "parent", video[1], pick)
                  ELSE [media EXCEPT !.pc = "mediaDetails"]
  /\ UNCHANGED <<pollVars, retryVars, twinVars, resetVars, bootVars, feedVars, cacheVars>>

\* line 368 and 374: an entry with a video to download
HasVideo(item) ==
  /\ item.type = "video"
  /\ item.variants # Null
  /\ BestMp4(item.variants[1]) # Null

\* lines 366-379: the loop stops at the first entry with an MP4 variant
\* (its download either succeeds, line 391, or throws)
MediaDetailsVideo(md) ==
  /\ media.pc = "mediaDetails"
  /\ IF media.hasFoundVideo
       THEN media' = [media EXCEPT !.pc = "photos"]
       ELSE LET hits == {i \in 1..Len(md) : HasVideo(md[i])}
                first == CHOOSE i \in hits : \A j \in hits : i <= j
                read == [media EXCEPT !.mediaDetails = md]
            IN  media' = IF hits # {}
                           THEN Download(read, "mediaDetails", md[first].variants[1],
                                         BestMp4(md[first].variants[1]))
                           ELSE [read EXCEPT !.pc = "photos"]
  /\ UNCHANGED <<pollVars, retryVars, twinVars, resetVars, bootVars, feedVars, cacheVars>>

\* photos are looked at whatever was found
PhotosAlways(hasFoundVideo) == TRUE
\* line 399
PhotosWanted(hasFoundVideo) == ~hasFoundVideo

\* the first entry of a list that satisfies a test (the loops of 402 and 420
\* stop at it), 0 if there is none
First(hits) == IF hits = {} THEN 0 ELSE CHOOSE i \in hits : \A j \in hits : i <= j
\* line 403
WithMarker(photos) == {i \in 1..Len(photos) : photos[i]}
\* line 421
PhotoEntries(md) == {i \in 1..Len(md) : md[i].url /\ md[i].type = "photo"}

\* mediaDetails is looked at whenever photos gave no image
ImageSourceLenient(hasFoundVideo, photos, md) ==
  IF ~PhotosWanted(hasFoundVideo) THEN "none"
  ELSE IF WithMarker(photos) # {} THEN "photos"
  ELSE IF PhotoEntries(md) # {} THEN "mediaDetails"
  ELSE "none"
\* lines 399-437: mediaDetails is the else branch of a non-empty photos
ImageSource(hasFoundVideo, photos, md) ==
  IF ~PhotosWanted(hasFoundVideo) THEN "none"
  ELSE IF Len(photos) > 0
         THEN (IF WithMarker(photos) # {} THEN "photos" ELSE "none")
  ELSE IF Len(md) > 0 /\ PhotoEntries(md) # {} THEN "mediaDetails"
  ELSE "none"

\* lines 399-438; detailedTweet goes out of scope at line 439
DetailPhotos(photos) ==
  /\ media.pc = "photos"
  /\ LET md == media.mediaDetails
         src == ImageSource(media.hasFoundVideo, photos, md)
     IN  media' = [media EXCEPT !.pc = "rawExtended", !.mediaDetails = <<>>,
                                !.image = IF src = "none" THEN @ ELSE src,
                                !.hasFoundImage = @ \/ src # "none",
                                !.entry = IF src = "photos" THEN First(WithMarker(photos))
                                          ELSE IF src = "mediaDetails"
                                                 THEN First(PhotoEntries(md))
                                          ELSE @,
                                !.passedOver = /\ PhotosWanted(media.hasFoundVideo)
                                               /\ src = "none"
                                               /\ PhotoEntries(md) # {}]
  /\ UNCHANGED <<pollVars, retryVars, twinVars, resetVars, bootVars, feedVars, cacheVars>>

\* downloadMedia settles: it resolves to the path of the written file (never
\* an empty value) or throws; an error of a detail tier goes to the catch of
\* line 439, one of the raw tier to the catch of line 480
DownloadMediaSettles(ok) ==
  /\ media.pc = "download"
  /\ LET after == IF media.tier = "video" THEN "parentVideo"
                  ELSE IF media.tier = "parent" THEN "mediaDetails"
                  ELSE IF media.tier = "mediaDetails" THEN "photos"
                  ELSE "rawImage"
         caught == IF media.tier \in DetailTiers THEN "rawExtended" ELSE "rawImage"
         done == [media EXCEPT !.variants = <<>>, !.chosen = Null]
     IN  media' = IF ok THEN [done EXCEPT !.pc = after, !.hasFoundVideo = TRUE]
                  ELSE [done EXCEPT !.pc = caught,
                                    !.mediaDetails = IF caught = "rawExtended" THEN <<>> ELSE @]
  /\ UNCHANGED <<pollVars, retryVars, twinVars, resetVars, bootVars, feedVars, cacheVars>>

\* lines 445-467: the first video entry only (line 451)
RawExtended(ext) ==
  /\ media.pc = "rawExtended"
  /\ IF media.hasFoundImage \/ media.hasFoundVideo
       THEN media' = [media EXCEPT !.pc = "attachments"]
       ELSE IF Len(ext) = 0
              THEN media' = [media EXCEPT !.pc = "entities"]
              ELSE LET hits == {i \in 1..Len(ext) : ext[i].type = "video"}
                       videoMedia == ext[CHOOSE i \in hits : \A j \in hits : i <= j]
                       pick == IF hits # {} /\ videoMedia.variants # Null
                                 THEN BestMp4(videoMedia.variants[1]) ELSE Null
                       read == [media EXCEPT !.extended = ext]
                   IN  media' = IF pick # Null
                                  THEN Download(read, "extended", videoMedia.variants[1], pick)
                                  ELSE [read EXCEPT !.pc = "rawImage"]
  /\ UNCHANGED <<pollVars, retryVars, twinVars, resetVars, bootVars, feedVars, cacheVars>>

\* lines 486-502
RawImage ==
  /\ media.pc = "rawImage"
  /\ LET found == ~media.hasFoundVideo /\ ~media.hasFoundImage /\ media.extended[1].url
     IN  media' = [media EXCEPT !.pc = "entities",
                                !.image = IF found THEN "extended" ELSE @,
                                !.hasFoundImage = @ \/ found]
  /\ UNCHANGED <<pollVars, retryVars, twinVars, resetVars, bootVars, feedVars, cacheVars>>

\* the entities looked at whatever was found before
RawEntitiesAlways(e) ==
  /\ media.pc = "entities"
  /\ LET looks == e # Null
         src == IF ~looks THEN "none"
                ELSE IF e[1].mediaUrl THEN "entities"
                ELSE IF e[1].images THEN "urlImages"
                ELSE IF e[1].links THEN "photoLinks"
                ELSE "none"
     IN  media' = [media EXCEPT !.pc = "attachments",
                                !.image = IF src = "none" THEN @ ELSE src,
                                !.hasFoundImage = @ \/ src # "none"]
  /\ UNCHANGED <<pollVars, retryVars, twinVars, resetVars, bootVars, feedVars, cacheVars>>

\* lines 506-562
RawEntities(e) ==
  /\ media.pc = "entities"
  /\ LET looks == ~media.hasFoundImage /\ ~media.hasFoundVideo /\ e # Null
         src == IF ~looks THEN "none"
                ELSE IF e[1].mediaUrl THEN "entities"
                ELSE IF e[1].images THEN "urlImages"
                ELSE IF e[1].links THEN "photoLinks"
                ELSE "none"
     IN  media' = [media EXCEPT !.pc = "attachments",
                                !.image = IF src = "none" THEN @ ELSE src,
                                !.hasFoundImage = @ \/ src # "none"]
  /\ UNCHANGED <<pollVars, retryVars, twinVars, resetVars, bootVars, feedVars, cacheVars>>

\* lines 566-577; the embed is then sent (line 588)
Attachments(mediaKeys) ==
  /\ media.pc = "attachments"
  /\ media' = [media EXCEPT !.pc = "send",
                            !.containsMedia = ~media.hasFoundImage /\ ~media.hasFoundVideo
                                                /\ mediaKeys]
  /\ UNCHANGED <<pollVars, retryVars, twinVars, resetVars, bootVars, feedVars, cacheVars>>

\* the position is tested before a block's input is drawn
MediaNext ==
  \/ media.pc = "fetchSingleTweet" /\ \E d \in DetailOutcomes : FetchSingleTweetSettles(d)
  \/ media.pc = "detailVideo" /\ \E video \in VideoInputs : DetailVideo(video)
  \/ media.pc = "parentVideo" /\ \E video \in VideoInputs : ParentVideo(video)
  \/ media.pc = "mediaDetails" /\ \E md \in MediaLists : MediaDetailsVideo(md)
  \/ media.pc = "photos" /\ \E photos \in PhotoLists : DetailPhotos(photos)
  \/ media.pc = "download" /\ \E ok \in BOOLEAN : DownloadMediaSettles(ok)
  \/ media.pc = "rawExtended" /\ \E ext \in MediaLists : RawExtended(ext)
  \/ RawImage
  \/ media.pc = "entities" /\ \E e \in EntityInputs : RawEntities(e)
  \/ media.pc = "attachments" /\ \E mediaKeys \in BOOLEAN : Attachments(mediaKeys)

\* no cascade is running (for the specifications of the other parts)
NoMedia == [NewCascade EXCEPT !.pc = "none"]

(***************************************************************************)
(* Two runs of the poll loop on the same feed, from the same state files:  *)
(* u is never stopped, r may be stopped between two invocations of         *)
(* processTweets and started again, which loads the files (lines 44-61).   *)
(* Invocations do not overlap here; each runs from its fetch to its        *)
(* return, and what its sends do has no effect on the state.               *)
(***************************************************************************)
\* invocations of processTweets per run
MaxCycles == 3

\* what the feed may return at time t: posts created now or one Tick ago
SnapPosts(t) == [id : Ids, created_at : {t, t - Tick}, user : BOOLEAN]
Snapshots(t) == UNION {[1..n -> SnapPosts(t)] : n \in 0..MaxBatch}

\* the files the program may find at its start
StartIdsFiles ==
  {NoFile, [exists |-> TRUE, valid |-> FALSE, data |-> {}]}
    \cup {WriteIds(ids) : ids \in SUBSET Ids}
StartStateFiles ==
  {NoStateFile, [exists |-> TRUE, valid |-> FALSE, lastFetchTimestamp |-> Null],
   WriteState(Null), WriteState(Some(0)), WriteState(Some(Tick))}

\* lines 44-61
LoadMemory(files) ==
  [ids |-> LoadIds(files.ids), ts |-> LoadTimestamp(files.ids, files.st)]

\* lines 64-76: the two writes in turn; an error of either is caught and
\* logged (line 74), and the second is not tried after an error of the first
SaveOutcomes == {"ok", "idsFails", "stateFails"}
SaveFiles(files, mem, save) ==
  IF save = "idsFails" THEN files
  ELSE IF save = "stateFails" THEN [files EXCEPT !.ids = WriteIds(mem.ids)]
  ELSE [ids |-> WriteIds(mem.ids), st |-> WriteState(mem.ts)]

\* lines 228-619: the posts the loop takes up, in order
RECURSIVE PublishFrom(_, _, _)
PublishFrom(seen, rt, i) ==
  LET r == LoopFrom(seen, rt, i)
  IN  IF r.next = "end" THEN [seen |-> r.seen, published |-> <<>>]
      ELSE LET rest == PublishFrom(r.seen, rt, r.idx + 1)
           IN  [seen |-> rest.seen, published |-> <<rt[r.idx].id>> \o rest.published]

\* an invocation that moves the timestamp when it finds no channel
CycleRunStamping(mem, files, tweets, t, channelOk, save) ==
  LET same == [mem |-> mem, files |-> files, published |-> <<>>, saves |-> FALSE]
      recentTweets == FilterRecent(SortTweets(tweets), t)
  IN  IF mem.ts = Null
        THEN LET m == [ids |-> MarkAll(mem.ids, tweets), ts |-> Some(t)]
             IN  [mem |-> m, files |-> SaveFiles(files, m, save),
                  published |-> <<>>, saves |-> TRUE]
      ELSE IF ~channelOk THEN [same EXCEPT !.mem = [mem EXCEPT !.ts = Some(t)]]
      ELSE IF Len(recentTweets) = 0
        THEN \* lines 219-223: the timestamp moves in memory only
             [same EXCEPT !.mem = [mem EXCEPT !.ts = Some(t)]]
      ELSE LET loop == PublishFrom(mem.ids, recentTweets, 1)
               m == [ids |-> loop.seen, ts |-> Some(t)]
           IN  [mem |-> m, files |-> SaveFiles(files, m, save),
                published |-> loop.published, saves |-> TRUE]

\* lines 170-634 for an array of posts: the memory and the files after the
\* invocation, the posts it published, and whether it called saveState
CycleRun(mem, files, tweets, t, channelOk, save) ==
  LET same == [mem |-> mem, files |-> files, published |-> <<>>, saves |-> FALSE]
      recentTweets == FilterRecent(SortTweets(tweets), t)
  IN  IF mem.ts = Null
        THEN LET m == [ids |-> MarkAll(mem.ids, tweets), ts |-> Some(t)]
             IN  [mem |-> m, files |-> SaveFiles(files, m, save),
                  published |-> <<>>, saves |-> TRUE]
      ELSE IF ~channelOk THEN same
      ELSE IF Len(recentTweets) = 0
        THEN \* lines 219-223: the timestamp moves in memory only
             [same EXCEPT !.mem = [mem EXCEPT !.ts = Some(t)]]
      ELSE LET loop == PublishFrom(mem.ids, recentTweets, 1)
               m == [ids |-> loop.seen, ts |-> Some(t)]
           IN  [mem |-> m, files |-> SaveFiles(files, m, save),
                published |-> loop.published, saves |-> TRUE]

TwinInit ==
  \E idsFile \in StartIdsFiles, st \in StartStateFiles :
    LET files == [ids |-> idsFile, st |-> st]
    IN  twin = [pc |-> "run", n |-> 0, t |-> 2 * Tick,
                u |-> LoadMemory(files), r |-> LoadMemory(files), files |-> files,
                skipped |-> FALSE,     \* the last answer held a fresh post r had seen
                uPub |-> <<>>,         \* what u published from it
                rPub |-> <<>>,         \* what r published from it
                unsaved |-> FALSE,     \* the last saveState of r failed
                stale |-> FALSE,       \* r was started from files behind its memory
                restarted |-> FALSE,   \* r was stopped and started again
                after |-> FALSE]       \* the last invocation of r followed a restart

\* both runs fetch the same posts at the same time and meet the same channel
\* and the same outcome of the writes
TwinCycle(tweets, channelOk, save) ==
  /\ twin.pc = "run"
  /\ twin.n < MaxCycles
  /\ LET u == CycleRun(twin.u, [ids |-> NoFile, st |-> NoStateFile],
                       tweets, twin.t, channelOk, save)
         r == CycleRun(twin.r, twin.files, tweets, twin.t, channelOk, save)
     IN  twin' = [twin EXCEPT !.n = @ + 1, !.t = @ + Tick,
                              !.u = u.mem, !.r = r.mem, !.files = r.files,
                              !.skipped = \E i \in 1..Len(tweets) :
                                            /\ IsRecent(tweets[i], twin.t)
                                            /\ AlreadyProcessed(twin.r.ids, tweets[i].id),
                              !.uPub = u.published, !.rPub = r.published,
                              !.unsaved = IF r.saves THEN save # "ok" ELSE @,
                              !.after = twin.restarted]
  /\ UNCHANGED <<pollVars, retryVars, mediaVars, resetVars, bootVars, feedVars, cacheVars>>

\* lines 174-178 and 631-633: the fetch fails or yields no array
TwinFetchFails ==
  /\ twin.pc = "run"
  /\ twin.n < MaxCycles
  /\ twin' = [twin EXCEPT !.n = @ + 1, !.t = @ + Tick, !.skipped = FALSE,
                          !.uPub = <<>>, !.rPub = <<>>, !.after = twin.restarted]
  /\ UNCHANGED <<pollVars, retryVars, mediaVars, resetVars, bootVars, feedVars, cacheVars>>

\* r is stopped between two invocations and started again
TwinRestart ==
  /\ twin.pc = "run"
  /\ twin.n < MaxCycles
  /\ twin' = [twin EXCEPT !.r = LoadMemory(twin.files),
                          !.stale = @ \/ twin.unsaved,
                          !.restarted = TRUE]
  /\ UNCHANGED <<pollVars, retryVars, mediaVars, resetVars, bootVars, feedVars, cacheVars>>

TwinNext ==
  \/ /\ twin.pc = "run" /\ twin.n < MaxCycles
     /\ \E tweets \in Snapshots(twin.t), channelOk \in BOOLEAN, save \in SaveOutcomes :
          TwinCycle(tweets, channelOk, save)
  \/ TwinFetchFails
  \/ TwinRestart

\* no twin runs (for the specifications of the other parts)
NoTwin == [pc |-> "none"]

(***************************************************************************)
(* The reset utility (src/reset.js:14-50), a process of its own that may   *)
(* be run whether the bot is up or down.                                   *)
(***************************************************************************)
\* runs of the utility
MaxResets == 2

\* no run yet
NoReset == [runs |-> 0, idsError |-> FALSE, stateError |-> FALSE, deleted |-> 0]

\* the delete is left out
UnlinkSkipped(f, ok, gone) == f
\* lines 20-30 and 33-43: unlinkSync on a file that exists; its error is
\* caught and logged (25-27, 38-40) and the file stays
Unlink(f, ok, gone) == IF f.exists /\ ok THEN gone ELSE f

\* one run; idsOk and stateOk tell whether unlinkSync would succeed
ResetBotState(idsOk, stateOk) ==
  /\ reset.runs < MaxResets
  /\ processedIdsFile' = Unlink(processedIdsFile, idsOk, NoFile)
  /\ stateFile' = Unlink(stateFile, stateOk, NoStateFile)
  /\ reset' = [runs |-> reset.runs + 1,
               idsError |-> processedIdsFile.exists /\ ~idsOk,
               stateError |-> stateFile.exists /\ ~stateOk,
               deleted |-> (IF processedIdsFile.exists /\ idsOk THEN 1 ELSE 0)
                             + (IF stateFile.exists /\ stateOk THEN 1 ELSE 0)]
  /\ UNCHANGED <<now, posts, procVars, histVars, retryVars, mediaVars, twinVars, bootVars, feedVars, cacheVars>>

(***************************************************************************)
(* Startup (src/index.js:636-649 and 668-692).                             *)
(***************************************************************************)
\* process.exit(1), lines 675 and 691
ExitFailure == 1

BullxHost == "api-neo.bullx.io"
\* AXIOM_TWITTER_API_URL as the parts of the text: unset or empty, a url
\* of another host, a url of the expected host
ApiUrls == {<<>>, <<"example.org", "feed">>, <<BullxHost, "v2", "tweets">>}
\* line 644: TWITTER_API_URL.includes('api-neo.bullx.io')
Includes(url, part) == \E i \in 1..Len(url) : url[i] = part

\* any url passes
ValidatesAnything(url) == TRUE
\* lines 637-649: the value returned
ValidateApiConfig(url) == url # <<>>
\* lines 644-646
ApiConfigWarns(url) == url # <<>> /\ ~Includes(url, BullxHost)

\* no startup is modelled: the bot is up
NoBoot == [pc |-> "none", url |-> <<>>, loggedIn |-> FALSE, code |-> 0, warned |-> FALSE]

\* the module is loaded and client.login is awaited (line 689)
BootInit ==
  \E url \in ApiUrls :
    boot = [pc |-> "login", url |-> url, loggedIn |-> FALSE, code |-> 0, warned |-> FALSE]

\* lines 689-692: the login is rejected
LoginFails ==
  /\ boot.pc = "login"
  /\ boot' = [boot EXCEPT !.pc = "exited", !.code = ExitFailure]
  /\ UNCHANGED <<pollVars, retryVars, mediaVars, twinVars, resetVars, feedVars, cacheVars>>

\* lines 669-680: the client is ready; pollTweets calls processTweets,
\* which calls fetchTweets (652-656, 172)
ClientReady ==
  /\ boot.pc = "login"
  /\ IF ValidateApiConfig(boot.url)
       THEN /\ boot' = [boot EXCEPT !.pc = "up", !.loggedIn = TRUE,
                                    !.warned = ApiConfigWarns(boot.url)]
            /\ phase' = "first"
            /\ cycle' = [c \in Slots |-> IF c = 1 THEN FetchingCycle ELSE IdleCycle]
       ELSE /\ boot' = [boot EXCEPT !.pc = "exited", !.loggedIn = TRUE, !.code = ExitFailure]
            /\ UNCHANGED <<phase, cycle>>
  /\ UNCHANGED <<envVars, lastProcessedIds, lastFetchTimestamp, histVars>>
  /\ UNCHANGED <<retryVars, mediaVars, twinVars, resetVars, feedVars, cacheVars>>

(***************************************************************************)
(* One invocation of processTweets seen from the answer of the feed        *)
(* (src/index.js:100-122 and 170-634): the attempts of fetchTweets under   *)
(* withRetry, the value it returns for each shape of the body, and what    *)
(* processTweets makes of that value.  State writes succeed here.          *)
(***************************************************************************)
\* invocations of processTweets
MaxPolls == 3

\* line 114
HttpOk == 200
\* 204 is resolved by axios and refused at line 117; 500 is rejected by axios
Statuses == {HttpOk, 204, 500}

\* response.data?.data: absent (or the body has no such field), a falsy
\* value (null, 0, ''), an array of posts, or another truthy value
Falsy == {"missing", "falsy"}
EmptyArray == [kind |-> "array", items |-> <<>>]
Datas(t) ==
  {[kind |-> k, items |-> <<>>] : k \in Falsy \cup {"object"}}
    \cup {[kind |-> "array", items |-> b] : b \in Snapshots(t)}

\* every value that is no array read as []
AnythingOrEmpty(data) == IF data.kind # "array" THEN EmptyArray ELSE data
\* line 116: response.data?.data || []
DataOrEmpty(data) == IF data.kind \in Falsy THEN EmptyArray ELSE data

\* line 174
IsArray(tweets) == tweets.kind = "array"

\* lines 172-634 for the value fetchTweets returned
ProcessTweets(mem, files, tweets, t, channelOk) ==
  IF ~IsArray(tweets)
    THEN [mem |-> mem, files |-> files, published |-> <<>>, saves |-> FALSE]
    ELSE CycleRun(mem, files, tweets.items, t, channelOk, "ok")

FeedInit ==
  \E ids \in SUBSET Ids, st \in {NoStateFile, WriteState(Some(Tick))} :
    LET files == [ids |-> IF ids = {} THEN NoFile ELSE WriteIds(ids), st |-> st]
        mem == LoadMemory(files)
    IN  feed = [pc |-> "request", n |-> 1, t |-> 2 * Tick, attempt |-> 1,
                mem |-> mem, files |-> files,
                last |-> "none",          \* how the last invocation's fetch ended
                before |-> [mem |-> mem, files |-> files],   \* at its start
                asEmpty |-> [mem |-> mem, files |-> files],  \* had it fetched []
                published |-> <<>>,       \* what it published
                log |-> <<>>,             \* how and when each invocation ended
                noUser |-> {}]            \* ids skipped for want of user data

\* how an invocation that was returned `tweets` ends: at line 177, in the
\* first-run branch (192), at line 199 or past the channel lookup
EndOf(mem, tweets, channelOk) ==
  IF ~IsArray(tweets) THEN "noArray"
  ELSE IF mem.ts = Null THEN "baseline"
  ELSE IF ~channelOk THEN "noChannel"
  ELSE "done"

\* lines 228-243: the posts the loop, from position i on, marks and leaves
\* at line 242 because they carry no user data
RECURSIVE SkippedNoUser(_, _, _)
SkippedNoUser(seen, rt, i) ==
  IF i > Len(rt) THEN {}
  ELSE IF AlreadyProcessed(seen, rt[i].id) THEN SkippedNoUser(seen, rt, i + 1)
  ELSE (IF rt[i].user THEN {} ELSE {rt[i].id})
         \cup SkippedNoUser(seen \cup {rt[i].id}, rt, i + 1)

\* axios.get settles (104-120) in attempt feed.attempt of withRetry (82-96)
AxiosSettles(status, data, channelOk) ==
  /\ feed.pc = "request"
  /\ LET start == [mem |-> feed.mem, files |-> feed.files]
         end == EndOf(feed.mem, DataOrEmpty(data), channelOk)
         r == ProcessTweets(feed.mem, feed.files, DataOrEmpty(data), feed.t, channelOk)
         e == ProcessTweets(feed.mem, feed.files, EmptyArray, feed.t, channelOk)
     IN  feed' =
           IF status = HttpOk
             THEN [feed EXCEPT !.pc = "returned", !.last = data.kind,
                               !.before = start,
                               !.asEmpty = [mem |-> e.mem, files |-> e.files],
                               !.mem = r.mem, !.files = r.files,
                               !.published = r.published,
                               !.log = Append(@, [end |-> end, t |-> feed.t]),
                               !.noUser = IF end # "done" THEN @
                                          ELSE @ \cup SkippedNoUser(feed.mem.ids,
                                                 FilterRecent(SortTweets(DataOrEmpty(data).items),
                                                              feed.t), 1)]
           ELSE IF feed.attempt < MAX_RETRIES
             THEN [feed EXCEPT !.pc = "delay"]
           ELSE \* line 96 throws, caught at 631
                [feed EXCEPT !.pc = "returned", !.last = "error",
                             !.before = start, !.asEmpty = start,
                             !.published = <<>>,
                             !.log = Append(@, [end |-> "error", t |-> feed.t])]
  /\ UNCHANGED <<pollVars, retryVars, mediaVars, twinVars, resetVars, bootVars, cacheVars>>

\* line 91: the delay is over, the next attempt starts
FeedDelayElapses ==
  /\ feed.pc = "delay"
  /\ feed' = [feed EXCEPT !.pc = "request", !.attempt = @ + 1]
  /\ UNCHANGED <<pollVars, retryVars, mediaVars, twinVars, resetVars, bootVars, cacheVars>>

\* lines 659-665: the next invocation, within the same minute or later
FeedIntervalFires(dt) ==
  /\ feed.pc = "returned"
  /\ feed.n < MaxPolls
  /\ dt \in {0, Tick}
  /\ feed' = [feed EXCEPT !.pc = "request", !.n = @ + 1, !.t = @ + dt,
                          !.attempt = 1]
  /\ UNCHANGED <<pollVars, retryVars, mediaVars, twinVars, resetVars, bootVars, cacheVars>>

\* no invocation is followed (for the specifications of the other parts)
NoFeed == [pc |-> "none"]

(***************************************************************************)
(* The video files of one invocation's posts (src/index.js:151-167 and     *)
(* 587-620): each post has a video selected; downloadMedia writes it to    *)
(* the cache directory, the embed and the file are sent, and a timer       *)
(* removes the file.  The file name is made from the post id.              *)
(***************************************************************************)
\* posts with a video in the invocation
MaxVideos == 3
VideoIds == 1..MaxVideos

\* lines 302 and 599-611 before the first post
NewCache ==
  [pc |-> "download", post |-> 1,
   hasFoundVideo |-> FALSE,
   files |-> {},       \* ids whose video file is in the cache directory
   timers |-> {},      \* ids whose cleanup is scheduled
   raised |-> FALSE]   \* a cleanup let an error out

CacheInit == cache = NewCache

\* line 228: the loop goes to the next post, or ends
NextVideo(c) ==
  IF c.post < MaxVideos
    THEN [c EXCEPT !.pc = "download", !.post = @ + 1, !.hasFoundVideo = FALSE]
    ELSE [c EXCEPT !.pc = "done", !.hasFoundVideo = FALSE]

\* downloadMedia settles (151-167): the file is written at 163, or the
\* download fails after its retries and the post has no video
DownloadWrites(ok) ==
  /\ cache.pc = "download"
  /\ cache' = IF ok THEN [cache EXCEPT !.pc = "embed", !.hasFoundVideo = TRUE,
                                       !.files = @ \cup {cache.post}]
              ELSE [cache EXCEPT !.pc = "embed"]
  /\ UNCHANGED <<pollVars, retryVars, mediaVars, twinVars, resetVars, bootVars, feedVars>>

\* line 588 settles; an error goes to the catch of 617
EmbedSendSettles(ok) ==
  /\ cache.pc = "embed"
  /\ cache' = IF ok /\ cache.hasFoundVideo THEN [cache EXCEPT !.pc = "file"]
              ELSE NextVideo(cache)
  /\ UNCHANGED <<pollVars, retryVars, mediaVars, twinVars, resetVars, bootVars, feedVars>>

\* lines 598-611: setTimeout follows the awaited send inside the try block
Scheduled(c, ok) == IF ok THEN c.timers \cup {c.post} ELSE c.timers

\* line 598 settles; an error goes to the catch of 612
FileSendSettles(ok) ==
  /\ cache.pc = "file"
  /\ cache' = [NextVideo(cache) EXCEPT !.timers = Scheduled(cache, ok)]
  /\ UNCHANGED <<pollVars, retryVars, mediaVars, twinVars, resetVars, bootVars, feedVars>>

\* lines 602-611: the timer fires; the file is removed if it is there
CleanupRuns(p) ==
  /\ p \in cache.timers
  /\ cache' = [cache EXCEPT !.timers = @ \ {p}, !.files = @ \ {p}]
  /\ UNCHANGED <<pollVars, retryVars, mediaVars, twinVars, resetVars, bootVars, feedVars>>

\* somebody else empties the cache directory of a file
FileRemoved(p) ==
  /\ p \in cache.files
  /\ cache' = [cache EXCEPT !.files = @ \ {p}]
  /\ UNCHANGED <<pollVars, retryVars, mediaVars, twinVars, resetVars, bootVars, feedVars>>

\* what the program does (network calls settle, timers fire)
CacheProgram ==
  \/ \E ok \in BOOLEAN : DownloadWrites(ok)
  \/ \E ok \in BOOLEAN : EmbedSendSettles(ok)
  \/ \E ok \in BOOLEAN : FileSendSettles(ok)
  \/ \E p \in VideoIds : CleanupRuns(p)

\* no video is followed (for the specifications of the other parts)
NoCache == [pc |-> "none"]

(***************************************************************************)
(* Specifications.                                                         *)
(***************************************************************************)
\* the poll loop is not running (for the specifications of the parts)
PollIdle ==
  /\ now = Tick
  /\ posts = <<>>
  /\ processedIdsFile = NoFile
  /\ stateFile = NoStateFile
  /\ phase = "down"
  /\ lastProcessedIds = {}
  /\ lastFetchTimestamp = Null
  /\ cycle = [c \in Slots |-> IdleCycle]
  /\ crashes = 0
  /\ embedsSent = [p \in Ids |-> 0]
  /\ embedsLife = [p \in Ids |-> 0]
  /\ failed = {}

RetryIdle ==
  /\ retry = NoRetry
  /\ rTrace = <<>>

MediaIdle == media = NoMedia

TwinIdle == twin = NoTwin

ResetIdle == reset = NoReset

BootIdle == boot = NoBoot

FeedIdle == feed = NoFeed

CacheIdle == cache = NoCache

Init == PollInit /\ RetryIdle /\ MediaIdle /\ TwinIdle /\ ResetIdle /\ BootIdle /\ FeedIdle /\ CacheIdle

\* one process lifetime, invocations overlapping
Next ==
  \/ Environment
  \/ \E c \in Slots : CycleStep(c)

Spec == Init /\ [][Next]_vars

\* crashes and restarts of a process whose invocations do not overlap
NextCrash ==
  \/ Environment
  \/ CycleStep(1)
  \/ Crash
  \/ Restart

SpecCrash == Init /\ [][NextCrash]_vars

\* the same process, and runs of the reset utility at any moment
NextReset ==
  \/ Environment
  \/ CycleStep(1)
  \/ Crash
  \/ Restart
  \/ \E idsOk \in BOOLEAN, stateOk \in BOOLEAN : ResetBotState(idsOk, stateOk)

SpecReset == Init /\ [][NextReset]_vars

\* the bot from its start: login, validation, then the poll loop
InitStartup == PollIdle /\ RetryIdle /\ MediaIdle /\ TwinIdle /\ ResetIdle /\ BootInit /\ FeedIdle /\ CacheIdle

NextStartup ==
  \/ LoginFails
  \/ ClientReady
  \/ Environment
  \/ CycleStep(1)

SpecStartup == InitStartup /\ [][NextStartup]_vars

\* invocations of processTweets, each from the answers of the feed
InitFeed == PollIdle /\ RetryIdle /\ MediaIdle /\ TwinIdle /\ ResetIdle /\ BootIdle /\ FeedInit /\ CacheIdle

NextFeed ==
  \/ /\ feed.pc = "request"
     /\ \E status \in Statuses, data \in Datas(feed.t), channelOk \in BOOLEAN :
          AxiosSettles(status, data, channelOk)
  \/ FeedDelayElapses
  \/ \E dt \in {0, Tick} : FeedIntervalFires(dt)

SpecFeed == InitFeed /\ [][NextFeed]_vars

\* the videos of one invocation; every pending call settles and every
\* scheduled timer fires
InitCache == PollIdle /\ RetryIdle /\ MediaIdle /\ TwinIdle /\ ResetIdle /\ BootIdle /\ FeedIdle /\ CacheInit

NextCache ==
  \/ \E ok \in BOOLEAN : DownloadWrites(ok)
  \/ \E ok \in BOOLEAN : EmbedSendSettles(ok)
  \/ \E ok \in BOOLEAN : FileSendSettles(ok)
  \/ \E p \in VideoIds : CleanupRuns(p)
  \/ \E p \in VideoIds : FileRemoved(p)

SpecCache == InitCache /\ [][NextCache]_vars /\ WF_vars(CacheProgram)

\* one call of withRetry
InitRetry == PollIdle /\ RetryInit /\ MediaIdle /\ TwinIdle /\ ResetIdle /\ BootIdle /\ FeedIdle /\ CacheIdle

NextRetry == RetryNext

SpecRetry == InitRetry /\ [][NextRetry]_vars

\* the media cascade of one post
InitMedia == PollIdle /\ RetryIdle /\ MediaInit /\ TwinIdle /\ ResetIdle /\ BootIdle /\ FeedIdle /\ CacheIdle

NextMedia == MediaNext

SpecMedia == InitMedia /\ [][NextMedia]_vars

\* an uninterrupted run and a restarted one
InitReplay == PollIdle /\ RetryIdle /\ MediaIdle /\ TwinInit /\ ResetIdle /\ BootIdle /\ FeedIdle /\ CacheIdle

NextReplay == TwinNext

SpecReplay == InitReplay /\ [][NextReplay]_vars

(***************************************************************************)
(* Properties of the poll loop.                                            *)
(***************************************************************************)
PostStages == {"detail", "download", "embed", "video"}

Range(q) == {q[i] : i \in 1..Len(q)}

\* the step in which invocation c takes up a post: it has passed the check
\* of line 230, marked the post and awaits the post's first network call
TakesUp(c) ==
  /\ cycle'[c].pc = "detail"
  /\ cycle[c].pc # "detail"

TakenUpId(c) == cycle'[c].recentTweets[cycle'[c].idx].id

\* C1: within one process lifetime, overlapping invocations included, a
\* post whose id is in lastProcessedIds when an invocation examines it is
\* not taken up for publishing, and the embed of a post id is delivered at
\* most once.
C1_SeenNeverRepublished ==
  /\ [][\A c \in Slots : TakesUp(c) => TakenUpId(c) \notin lastProcessedIds]_vars
  /\ [](\A p \in Ids : embedsLife[p] <= 1)

\* two invocations overlap: one is publishing post p, the other has examined
\* p, found it seen, skipped it and taken up the next post of its list
C1_Witness ==
  \E c, d \in Slots :
    /\ c # d
    /\ cycle[c].pc = "video"
    /\ embedsLife[Current(c).id] = 1
    /\ cycle[d].pc = "detail"
    /\ cycle[d].idx = 2
    /\ cycle[d].recentTweets[1] = Current(c)

\* C2: an invocation that obtains a batch while lastFetchTimestamp is null
\* publishes nothing and returns, marks every id of the batch, sets
\* lastFetchTimestamp and writes both files, whatever the batch holds.
C2_FirstRunMarksAll ==
  [][\A c \in Slots : \A tweets \in Batches :
       (lastFetchTimestamp = Null /\ FetchResolves(c, tweets)) =>
          /\ embedsSent' = embedsSent
          /\ cycle'[c].pc = "idle"
          /\ lastProcessedIds' = lastProcessedIds \cup SeqIds(tweets)
          /\ lastFetchTimestamp' # Null
          /\ processedIdsFile' = [exists |-> TRUE, valid |-> TRUE, data |-> lastProcessedIds']
          /\ stateFile' = [exists |-> TRUE, valid |-> TRUE, lastFetchTimestamp |-> lastFetchTimestamp']]_vars

\* the startup invocation failed to fetch, a later one ran as the first run
\* at the second tick on a batch of a stale and a fresh post, both with user
\* data: both are marked and saved, neither was published
C2_Witness ==
  /\ \A c \in Slots : cycle[c].pc = "idle"
  /\ DOMAIN posts = {1, 2}
  /\ posts[1].user /\ posts[2].user
  /\ posts[1].created_at = Tick /\ posts[2].created_at = 2 * Tick
  /\ lastFetchTimestamp = Some(2 * Tick)
  /\ lastProcessedIds = {1, 2}
  /\ processedIdsFile = [exists |-> TRUE, valid |-> TRUE, data |-> {1, 2}]
  /\ stateFile = [exists |-> TRUE, valid |-> TRUE, lastFetchTimestamp |-> Some(2 * Tick)]
  /\ \A p \in Ids : embedsSent[p] = 0
  /\ failed = {}

Age(tweet) == now - tweet.created_at

\* C4 as stated: in every cycle, each fetched post older than the window is
\* in lastProcessedIds once the cycle has filtered its batch.
C4_OldPostsMarked ==
  [][\A c \in Slots : ChannelResolves(c) =>
       \A i \in 1..Len(cycle[c].tweets) :
          Age(cycle[c].tweets[i]) > ONE_MINUTE =>
             cycle[c].tweets[i].id \in lastProcessedIds']_vars

\* C4, amended: a fetched post older than the window is never published by
\* the cycle that fetched it (it is not in the list the loop runs over, the
\* list does not change while the loop runs, and only the post the loop is at
\* is published); the first run marks it, every other cycle drops it without
\* touching its mark.
C4_OldPostsDropped ==
  [][\A c \in Slots :
       /\ ChannelResolves(c) =>
            \A i \in 1..Len(cycle[c].tweets) :
               Age(cycle[c].tweets[i]) > ONE_MINUTE =>
                  /\ cycle[c].tweets[i] \notin Range(cycle'[c].recentTweets)
                  /\ (cycle[c].tweets[i].id \in lastProcessedIds'
                        <=> cycle[c].tweets[i].id \in lastProcessedIds)
       /\ (cycle[c].pc \in PostStages /\ cycle'[c].pc \in PostStages) =>
            cycle'[c].recentTweets = cycle[c].recentTweets
       /\ \A tweets \in Batches :
            (lastFetchTimestamp = Null /\ FetchResolves(c, tweets)) =>
               /\ SeqIds(tweets) \subseteq lastProcessedIds'
               /\ embedsSent' = embedsSent
       /\ \A p \in Ids :
            (embedsSent'[p] # embedsSent[p] /\ cycle[c].pc = "embed"
               /\ cycle'[c] # cycle[c]) => Current(c).id = p]_vars

\* a cycle that is not the first run has dropped the stale post 1 from its
\* batch, left it unmarked, and is publishing the fresh post 2
C4_Witness ==
  \E c \in Slots :
    /\ cycle[c].pc = "embed"
    /\ Len(cycle[c].tweets) = 2
    /\ cycle[c].tweets[1].id = 1
    /\ now - cycle[c].tweets[1].created_at > ONE_MINUTE
    /\ Current(c).id = 2
    /\ 1 \notin lastProcessedIds

ErrorStep(c) ==
  \/ \E m \in MediaPaths : DetailSettles(c, "error", m)
  \/ \E m \in MediaPaths : DownloadSettles(c, FALSE, m)
  \/ EmbedSettles(c, FALSE)
  \/ VideoSettles(c, FALSE)

\* after the step, invocation c is still at its post, or has gone through the
\* rest of its list up to the next post to publish, or through all of it and
\* the end-of-cycle save
GoesOn(c) ==
  LET cy == cycle[c]
      cz == cycle'[c]
      rest(k) == {cy.recentTweets[j].id : j \in (cy.idx + 1)..k}
  IN \/ /\ cz.pc \in {"download", "embed"}
        /\ cz.idx = cy.idx
        /\ cz.recentTweets = cy.recentTweets
     \/ /\ cz.pc = "detail"
        /\ cz.idx > cy.idx
        /\ cz.recentTweets = cy.recentTweets
        /\ rest(cz.idx) \subseteq lastProcessedIds'
     \/ /\ cz.pc = "idle"
        /\ rest(Len(cy.recentTweets)) \subseteq lastProcessedIds'
        /\ lastFetchTimestamp' = Some(cy.currentFetchTime)
        /\ processedIdsFile' = [exists |-> TRUE, valid |-> TRUE, data |-> lastProcessedIds']
        /\ stateFile' = [exists |-> TRUE, valid |-> TRUE, lastFetchTimestamp |-> lastFetchTimestamp']

\* C7: an error at any stage of one post (detail fetch, download, embed send,
\* video send) leaves the post marked and the cycle running: it goes on with
\* the post or with the remaining posts and reaches the end-of-cycle save;
\* a post that failed is never taken up again.
C7_PostErrorContained ==
  /\ [][\A c \in Slots :
          /\ ErrorStep(c) => (Current(c).id \in lastProcessedIds' /\ GoesOn(c))
          /\ TakesUp(c) => TakenUpId(c) \notin failed]_vars
  /\ [](failed \subseteq lastProcessedIds)

\* the embed send of post 1 failed; the cycle went on to post 2, and a later
\* cycle, handed both posts again, skipped them and saved
C7_Witness ==
  /\ failed = {1}
  /\ embedsLife[1] = 0
  /\ embedsLife[2] = 1
  /\ \A c \in Slots : cycle[c].pc = "idle"
  /\ processedIdsFile = [exists |-> TRUE, valid |-> TRUE, data |-> {1, 2}]

\* C3: a crash while a post is being processed, and a restart from the files,
\* never has the post published a second time.
C3_NoDuplicateAfterCrash == \A p \in Ids : embedsSent[p] <= 1

(***************************************************************************)
(* Properties of withRetry.                                                *)
(***************************************************************************)
Failures(k) == \A j \in 1..k : ~rTrace[j].ok

\* C5: when the operation fails k-1 times and then succeeds (k <= maxRetries),
\* withRetry returns the success value, has invoked the operation exactly k
\* times and delayed exactly k-1 times, and does nothing after the success.
C5_RetrySuccess ==
  /\ [](retry.pc = "returned" =>
          LET k == Len(rTrace) IN
            /\ k >= 1 /\ k <= retry.maxRetries
            /\ Failures(k - 1)
            /\ rTrace[k].ok
            /\ retry.result = Some(rTrace[k].val)
            /\ retry.calls = k
            /\ retry.delays = k - 1)
  /\ [][retry.pc = "returned" => UNCHANGED retryVars]_vars

\* two failures, then success on the third of three attempts: two delays
C5_Witness ==
  /\ retry.pc = "returned"
  /\ retry.maxRetries = MAX_RETRIES
  /\ Len(rTrace) = 3
  /\ ~rTrace[1].ok /\ ~rTrace[2].ok /\ rTrace[3].ok
  /\ retry.result = Some(rTrace[3].val)
  /\ retry.delays = 2

\* C6: when the operation fails on all N = maxRetries attempts, withRetry has
\* invoked it exactly N times, delayed exactly N-1 times (not after the last
\* failure) and throws the error of the last attempt.
C6_RetryExhausted ==
  (retry.pc = "thrown" /\ retry.maxRetries >= 1) =>
     LET n == retry.maxRetries IN
       /\ Len(rTrace) = n
       /\ Failures(n)
       /\ retry.calls = n
       /\ retry.delays = n - 1
       /\ retry.result = Some(rTrace[n].val)
       /\ retry.lastError = Some(rTrace[n].val)

\* three failures with three different errors: the third one is thrown
C6_Witness ==
  /\ retry.pc = "thrown"
  /\ retry.maxRetries = 3
  /\ Len(rTrace) = 3
  /\ rTrace[1].val # rTrace[3].val /\ rTrace[2].val # rTrace[3].val
  /\ retry.result = Some(rTrace[3].val)
  /\ retry.delays = 2


(***************************************************************************)
(* Properties of the media cascade.                                        *)
(***************************************************************************)
\* C8: at most one media kind per post: 'image found' and 'video found'
\* are never both true, and once a video was resolved no image source of
\* any tier is used for the embed.
C8_OneMediaKind ==
  /\ ~(media.hasFoundImage /\ media.hasFoundVideo)
  /\ media.hasFoundVideo => media.image = "none"
  /\ media.hasFoundImage <=> media.image # "none"

\* the embed of a post is ready to be sent, its video comes from the raw
\* tier, and the first raw media entry offered an image url that was not used
C8_Witness ==
  /\ media.pc = "send"
  /\ media.hasFoundVideo
  /\ media.tier = "extended"
  /\ media.extended[1].url
  /\ media.image = "none"

\* C9: in every tier that selects a video variant, the variant chosen for
\* the download is an MP4 whose bitrate (absent counting as zero) is the
\* maximum among the MP4 variants of the list.
C9_MaxBitrateMp4 ==
  media.pc = "download" =>
    /\ media.chosen # Null
    /\ media.chosen[1].mp4
    /\ \A i \in 1..Len(media.variants) :
         media.variants[i].mp4 => Rate(media.variants[i]) <= Rate(media.chosen[1])

(***************************************************************************)
(* Properties of the restarted run.                                        *)
(***************************************************************************)
\* C10: from any starting state and for any feed snapshots, a run stopped
\* between two cycles and restarted from the saved SeenSet and CycleState
\* publishes, from every following snapshot, exactly the posts that the
\* uninterrupted run publishes (every restart found the state that the
\* last saveState had to write).
C10_ReplaySameDecisions ==
  ~twin.stale => twin.rPub = twin.uPub

\* after a restart from saved state, a snapshot holding a fresh post that
\* was seen before and a fresh post that is new: the new one is published,
\* the seen one is not
C10_Witness ==
  /\ twin.after /\ ~twin.stale
  /\ twin.skipped
  /\ Len(twin.rPub) = 1
  /\ twin.rPub[1] \in twin.r.ids

(***************************************************************************)
(* Properties of the reset utility.                                        *)
(***************************************************************************)
\* a run of the utility, and a start of the bot
ResetStep == reset'.runs = reset.runs + 1
StartStep == phase = "down" /\ phase' = "first"
FilesAbsent == ~processedIdsFile.exists /\ ~stateFile.exists

\* C11 as stated: every run of the reset leaves both files absent (a file
\* that was absent is left alone without an error), a run on absent files
\* changes nothing, and a start of the bot that follows finds no state, so
\* that its first cycle is a first-ever run.
C11_ResetLeavesNoFile ==
  [][/\ ResetStep =>
          /\ ~processedIdsFile'.exists /\ ~stateFile'.exists
          /\ ~processedIdsFile.exists => ~reset'.idsError
          /\ ~stateFile.exists => ~reset'.stateError
          /\ FilesAbsent => UNCHANGED <<processedIdsFile, stateFile>>
     /\ StartStep /\ FilesAbsent =>
          lastProcessedIds' = {} /\ lastFetchTimestamp' = Null]_vars

\* C11 amended: each file on its own is deleted when it exists and its
\* delete does not fail, stays when the delete fails (the error is logged,
\* not raised), and is left alone without an error when it is absent; a
\* run in which no delete failed leaves both files absent, a run on absent
\* files changes nothing, and a start of the bot from absent files finds no
\* state, so that its first cycle is a first-ever run.
C11_ResetDeletesUnlessError ==
  [][/\ ResetStep =>
          /\ processedIdsFile'.exists <=> reset'.idsError
          /\ stateFile'.exists <=> reset'.stateError
          /\ reset'.idsError => processedIdsFile' = processedIdsFile /\ processedIdsFile.exists
          /\ reset'.stateError => stateFile' = stateFile /\ stateFile.exists
          /\ FilesAbsent => UNCHANGED <<processedIdsFile, stateFile>> /\ reset'.deleted = 0
          /\ UNCHANGED <<lastProcessedIds, lastFetchTimestamp>>
     /\ StartStep /\ FilesAbsent =>
          /\ lastProcessedIds' = {} /\ lastFetchTimestamp' = Null
          /\ cycle'[1].pc = "fetch"]_vars

\* the bot had written both files with a seen post, one run of the reset
\* deleted both, and the bot was started again: it is in its startup cycle
\* with an empty SeenSet and no timestamp
C11_Witness ==
  /\ reset.runs = 1 /\ reset.deleted = 2
  /\ ~processedIdsFile.exists /\ ~stateFile.exists
  /\ crashes = 1 /\ phase = "first"
  /\ embedsSent[1] = 1
  /\ lastProcessedIds = {} /\ lastFetchTimestamp = Null

(***************************************************************************)
(* Further properties of the poll loop.                                    *)
(***************************************************************************)
\* C12: within a running process the in-memory SeenSet only grows: no step
\* of any cycle, successful, failed or overlapping another, removes an id.
C12_SeenSetGrows ==
  [][lastProcessedIds \subseteq lastProcessedIds']_vars

\* two invocations are in flight, one post's processing has failed, and
\* both posts are in the SeenSet
C12_Witness ==
  /\ \A c \in Slots : cycle[c].pc \in PostStages
  /\ failed # {}
  /\ lastProcessedIds = {1, 2}

(***************************************************************************)
(* Properties of the startup.                                              *)
(***************************************************************************)
\* no invocation of processTweets was ever started: nothing is in flight,
\* nothing was published, nothing marked and no file written
NothingStarted ==
  /\ phase = "down"
  /\ \A c \in Slots : cycle[c] = IdleCycle
  /\ \A p \in Ids : embedsSent[p] = 0
  /\ lastProcessedIds = {} /\ lastFetchTimestamp = Null
  /\ processedIdsFile = NoFile /\ stateFile = NoStateFile

\* C13: a failed login, or an empty feed url at validation, ends the
\* process with a nonzero status and no poll cycle is ever started; a url
\* that only fails to name the expected host warns and polling starts.
C13_StartupFailureIsFatal ==
  /\ boot.pc = "exited" => boot.code # 0 /\ NothingStarted
  /\ boot.pc = "up" => boot.loggedIn /\ boot.url # <<>> /\ phase # "down"
  /\ boot.pc = "up" /\ ~Includes(boot.url, BullxHost) => boot.warned
  /\ boot.pc = "up" /\ Includes(boot.url, BullxHost) => ~boot.warned
  /\ boot.pc = "login" => NothingStarted

\* the login succeeded, the url was empty, and the process has ended with
\* status 1 while the feed went on
C13_Witness ==
  /\ boot.pc = "exited" /\ boot.code = 1
  /\ boot.loggedIn /\ boot.url = <<>>
  /\ Cardinality(DOMAIN posts) = MaxId

(***************************************************************************)
(* Overlapping invocations.                                                *)
(***************************************************************************)
\* C14 as stated: a cycle that has observed a post id as absent from the
\* SeenSet is suspended before the id is written, so that an overlapping
\* cycle can observe the same id as absent too and the post is processed
\* and published twice: the step that observes the id absent leaves it
\* unwritten.
C14_ObservedAbsentNotYetWritten ==
  [][\A c \in Slots : TakesUp(c) => TakenUpId(c) \notin lastProcessedIds']_vars

\* C14 amended: the step in which a cycle observes a post id as absent
\* also writes it, before the cycle is suspended; overlapping cycles never
\* process the same post at the same time, and no post is published twice
\* by the running process.
C14_CheckAndMarkAtomic ==
  /\ [][\A c \in Slots : TakesUp(c) =>
          TakenUpId(c) \notin lastProcessedIds /\ TakenUpId(c) \in lastProcessedIds']_vars
  /\ [](\A c, d \in Slots :
          c # d /\ cycle[c].pc \in PostStages /\ cycle[d].pc \in PostStages
            => Current(c).id # Current(d).id)
  /\ [](\A p \in Ids : embedsLife[p] < 2)

\* two cycles overlap on the same list of two fresh posts: one is sending
\* the embed of the first, the other has skipped it and is sending the
\* embed of the second
C14_Witness ==
  \E c, d \in Slots :
    /\ c # d
    /\ cycle[c].pc = "embed" /\ cycle[d].pc = "embed"
    /\ Len(cycle[c].recentTweets) = 2
    /\ cycle[d].recentTweets = cycle[c].recentTweets
    /\ cycle[c].idx = 1 /\ cycle[d].idx = 2
    /\ Current(c).id # Current(d).id

\* C15: in a cycle that reaches the per-post loop, the id of a post is in
\* the in-memory SeenSet while any network operation for the post is
\* pending (detail fetch, download, sends), and when the loop ends every
\* post of the batch within the freshness window is in the SeenSet,
\* published or not.
C15_MarkedBeforeNetwork ==
  /\ [](\A c \in Slots : cycle[c].pc \in PostStages =>
          {cycle[c].recentTweets[j].id : j \in 1..cycle[c].idx} \subseteq lastProcessedIds)
  /\ [][\A c \in Slots :
          /\ (cycle[c].pc \in PostStages /\ cycle'[c].pc = "idle")
               => SeqIds(cycle[c].recentTweets) \subseteq lastProcessedIds'
          /\ (ChannelResolves(c) /\ cycle'[c].pc = "idle")
               => SeqIds(FilterRecent(cycle[c].tweets, now)) \subseteq lastProcessedIds']_vars

\* a cycle is sending the embed of the second post of its list; the first
\* one carried no user data: it was not published and is in the SeenSet
C15_Witness ==
  \E c \in Slots :
    /\ cycle[c].pc = "embed" /\ cycle[c].idx = 2
    /\ ~cycle[c].recentTweets[1].user
    /\ cycle[c].recentTweets[1].id # Current(c).id
    /\ embedsSent[cycle[c].recentTweets[1].id] = 0
    /\ cycle[c].recentTweets[1].id \in lastProcessedIds

(***************************************************************************)
(* C16  The poll loop writes the persisted records only in a cycle that    *)
(* produced at least one post within the freshness window; a cycle with no *)
(* recent post changes only the in-memory lastFetchTimestamp and leaves    *)
(* the SeenSet and both persisted files unchanged.                         *)
(***************************************************************************)
\* the invocation that runs in this step
Runs(c) == cycle'[c] # cycle[c]
\* it has posts within the freshness window (204-216)
HasRecent(c) ==
  \/ cycle[c].pc \in PostStages /\ Len(cycle[c].recentTweets) > 0
  \/ cycle[c].pc = "channel" /\ Len(FilterRecent(cycle[c].tweets, now)) > 0
\* it takes the first-run branch (184-193)
Baseline(c) ==
  cycle[c].pc = "fetch" /\ lastFetchTimestamp = Null /\ lastFetchTimestamp' # Null
FilesKept == UNCHANGED <<processedIdsFile, stateFile>>

\* as stated: whatever the cycle, no recent post means no write
C16_SavesOnlyWithRecent ==
  [][\A c \in Slots : Runs(c) /\ ~HasRecent(c) =>
        FilesKept /\ UNCHANGED lastProcessedIds]_vars

\* C16 as the code has it: the first-run cycle saves whatever it fetched
\* (184-193); every other cycle without a recent post leaves the SeenSet
\* and the files alone, and only its fast return (219-223) sets the timestamp
C16_SavesWithRecentOrBaseline ==
  [][\A c \in Slots : Runs(c) =>
        /\ Baseline(c) =>
              /\ processedIdsFile' = WriteIds(lastProcessedIds')
              /\ stateFile' = WriteState(lastFetchTimestamp')
        /\ ~Baseline(c) /\ ~HasRecent(c) =>
              /\ FilesKept /\ UNCHANGED lastProcessedIds
              /\ lastFetchTimestamp' # lastFetchTimestamp =>
                    cycle[c].pc = "channel" /\ cycle'[c].pc = "idle"
        /\ ~FilesKept => Baseline(c) \/ HasRecent(c)]_vars

\* a first run that fetched nothing has written both files, and a later
\* cycle without recent posts has moved the timestamp in memory only
C16_Witness ==
  /\ \A c \in Slots : cycle[c].pc = "idle"
  /\ processedIdsFile = WriteIds({})
  /\ stateFile.exists
  /\ lastFetchTimestamp # Null
  /\ stateFile.lastFetchTimestamp # lastFetchTimestamp

(***************************************************************************)
(* C17  Whenever no cycle is in flight and state writes succeed, every ID  *)
(* in the in-memory SeenSet is also in the persisted SeenSet, so a crash   *)
(* between cycles loses no seen-ID data.                                   *)
(***************************************************************************)
NoCycleInFlight == \A c \in Slots : cycle[c].pc = "idle"
PersistedIds == IF processedIdsFile.exists THEN processedIdsFile.data ELSE {}

C17_SeenIsPersistedBetweenCycles ==
  NoCycleInFlight => lastProcessedIds \subseteq PersistedIds

\* between cycles, with seen ids and a timestamp newer than the saved one
C17_Witness ==
  /\ NoCycleInFlight
  /\ phase = "polling"
  /\ lastProcessedIds # {}
  /\ lastFetchTimestamp # Null
  /\ stateFile.lastFetchTimestamp # lastFetchTimestamp

(***************************************************************************)
(* C18  If a video download fails after its retries in any tier of the     *)
(* cascade, the failure is treated as 'no video found' for that post: the  *)
(* post is still published, and image resolution still runs, starting with *)
(* the detail record's image sources (detail.photos, then the mediaDetails *)
(* photo) before the raw-post fallback.                                    *)
(***************************************************************************)
\* downloadMedia has thrown in this step (hasFoundVideo is unset whenever a
\* download is awaited, and set by nothing but its success)
DownloadFails ==
  media.pc = "download" /\ media'.pc # "download" /\ ~media'.hasFoundVideo
\* what follows a detail tier that found no video: a later tier of the detail
\* record, or its images (340, 366, 399)
InDetailRecord == {"parentVideo", "mediaDetails", "photos"}

\* after a failed download of a detail tier the cascade is still in the detail
\* record, the images of lines 399-437 ahead of it; after one of the raw tier
\* it is at the raw image (486); the embed is sent in either case
C18_DownloadFailureIsNoVideo ==
  [][DownloadFails =>
       /\ media.tier \in DetailTiers => media'.pc \in InDetailRecord
       /\ media.tier = "extended" => media'.pc = "rawImage"]_vars

(***************************************************************************)
(* C19  An HTTP 200 feed response whose body is not shaped as              *)
(* {data: [array]} is handled as an empty batch: the cycle behaves exactly *)
(* as a cycle that fetched zero posts (nothing published, no error,        *)
(* lastFetchTimestamp advanced, and on a first-ever run the baseline is    *)
(* established), while a non-200 status fails that attempt and is retried. *)
(***************************************************************************)
\* the invocation left what one that fetched [] would have left
EndedAsEmpty ==
  /\ feed.mem = feed.asEmpty.mem
  /\ feed.files = feed.asEmpty.files
  /\ feed.published = <<>>
\* the invocation left everything as it found it
EndedUnchanged ==
  /\ feed.mem = feed.before.mem
  /\ feed.files = feed.before.files
  /\ feed.published = <<>>
\* a status other than 200 is retried until the attempts are used up
StatusRetried ==
  /\ feed.pc = "delay" => feed.attempt < MAX_RETRIES
  /\ feed.pc = "returned" /\ feed.last = "error" => feed.attempt = MAX_RETRIES

\* as stated: every body other than {data: [array]}
C19_OtherShapeIsEmptyBatch ==
  /\ feed.pc = "returned" /\ feed.last \in Falsy \cup {"object"} => EndedAsEmpty
  /\ StatusRetried

\* C19 as the code has it: a body whose data is missing or falsy is handled
\* as an empty batch; one whose data is another value that is no array ends
\* the cycle with nothing published and nothing changed (174-178), the
\* timestamp not advanced and no first-run baseline; a status other than
\* 200 fails the attempt and is retried
C19_FalsyDataIsEmptyBatch ==
  /\ feed.pc = "returned" /\ feed.last \in Falsy => EndedAsEmpty
  /\ feed.pc = "returned" /\ feed.last = "object" => EndedUnchanged
  /\ StatusRetried

\* a first run that was answered a data value that is no array: still no
\* timestamp, where an empty batch would have set one
C19_Witness ==
  /\ feed.pc = "returned"
  /\ feed.last = "object"
  /\ feed.before.mem.ts = Null
  /\ feed.mem.ts = Null
  /\ feed.asEmpty.mem.ts # Null
  /\ feed.asEmpty.files.st.exists

(***************************************************************************)
(* C20  When the feed fetch exhausts its 3 attempts, or the channel lookup *)
(* fails or returns nothing, the cycle publishes nothing and leaves the    *)
(* SeenSet, lastFetchTimestamp and both persisted files exactly as they    *)
(* were; the failure does not stop the poll loop, and later cycles still   *)
(* run and can publish the same posts while they are within the freshness  *)
(* window.                                                                 *)
(***************************************************************************)
\* the invocation that has just returned ended on such a failure
CycleFailed ==
  /\ feed.pc = "returned"
  /\ feed.log[Len(feed.log)].end \in {"error", "noChannel"}

C20_FailedCycleChangesNothing ==
  /\ CycleFailed => EndedUnchanged
  /\ CycleFailed /\ feed.log[Len(feed.log)].end = "error" => feed.attempt = MAX_RETRIES
  /\ CycleFailed /\ feed.n < MaxPolls => ENABLED (\E dt \in {0, Tick} : FeedIntervalFires(dt))

\* the fetch failed three times, then the channel was not found, and the
\* next invocation, in the same minute, has published a post
C20_Witness ==
  /\ feed.pc = "returned"
  /\ Len(feed.log) = 3
  /\ feed.log[1] = [end |-> "error", t |-> feed.t]
  /\ feed.log[2] = [end |-> "noChannel", t |-> feed.t]
  /\ feed.log[3].end = "done"
  /\ feed.published # <<>>

(***************************************************************************)
(* C21  When the detail fetch for a post fails after its retries, or       *)
(* returns no record, or the record yields neither video nor image, the    *)
(* post is still published and its media is resolved from the raw post's   *)
(* own fields in the fixed fallback order; the raw fallback is used only   *)
(* when the detail record produced neither a video nor an image.           *)
(***************************************************************************)
\* the image sources of the raw post, in the order they are tried
RawSources == <<"extended", "entities", "urlImages", "photoLinks">>
\* this step takes media from the raw post: an image, a video to download,
\* or the bare marker of the footer
TakesRawMedia ==
  \/ media'.image # media.image /\ media'.image \in Range(RawSources)
  \/ media'.pc = "download" /\ media'.tier = "extended" /\ media.pc # "download"
  \/ media'.containsMedia /\ ~media.containsMedia
FoundNothing == ~media.hasFoundImage /\ ~media.hasFoundVideo

C21_RawFallbackInOrder ==
  /\ [][/\ TakesRawMedia => FoundNothing
        \* without a detail record the raw post is looked at next
        /\ media.pc = "fetchSingleTweet" /\ media'.pc # "detailVideo"
             => media'.pc = "rawExtended" /\ FoundNothing
        \* with nothing found, the extended entities come first (447-502)
        /\ media.pc = "rawExtended" /\ FoundNothing
             => media'.pc \in {"download", "rawImage", "entities"}
        /\ media'.image = "extended" /\ media.image = "none"
             => media.pc = "rawImage" /\ media.extended # <<>>
        \* then the entities, in their order (506-562)
        /\ \A e \in EntityInputs : RawEntities(e) /\ media'.image # media.image =>
             /\ media'.image = "entities" <=> e[1].mediaUrl
             /\ media'.image = "urlImages" <=> ~e[1].mediaUrl /\ e[1].images
             /\ media'.image = "photoLinks" <=>
                   ~e[1].mediaUrl /\ ~e[1].images /\ e[1].links
        \* the marker last, when no source gave anything (566-577)
        /\ media'.containsMedia /\ ~media.containsMedia
             => media.pc = "attachments" /\ media'.pc = "send"]_vars
  \* the cascade never stops short of the send of line 588
  /\ [](media.pc \notin {"send", "none"} => ENABLED MediaNext)

\* the embed is ready with the last of the raw image sources, no download
\* having been tried
C21_Witness ==
  /\ media.pc = "send"
  /\ media.image = "photoLinks"
  /\ media.tier = "none"

(***************************************************************************)
(* C22  For a post with a resolved video, the file message is issued only  *)
(* after the embed message for the same post was sent successfully and     *)
(* before any message of the next post in that cycle; if the embed send    *)
(* fails no file message is sent for that post, and a failure of the file  *)
(* send does not undo the embed or stop the cycle.  Each published post    *)
(* gets exactly one embed message and at most one file message.            *)
(***************************************************************************)
\* invocation c issues the file message of the post it is at (line 598)
IssuesFile(c) == cycle'[c].pc = "video" /\ cycle[c].pc # "video"
\* invocation c goes on after a post: to the next post it takes up, or to
\* the end of the loop and the save of lines 622-625
GoesOnAfterPost(c) ==
  \/ /\ cycle'[c].pc = "detail"
     /\ cycle'[c].idx > cycle[c].idx
     /\ cycle'[c].recentTweets = cycle[c].recentTweets
  \/ /\ cycle'[c].pc = "idle"
     /\ lastFetchTimestamp' = Some(cycle[c].currentFetchTime)
     /\ processedIdsFile' = WriteIds(lastProcessedIds')

C22_FileAfterEmbed ==
  /\ [][\A c \in Slots :
          \* the file follows the delivered embed of the same post, which is
          \* the first embed of that post
          /\ IssuesFile(c) =>
               /\ cycle[c].pc = "embed" /\ cycle[c].hasFoundVideo
               /\ cycle'[c].idx = cycle[c].idx
               /\ embedsLife[Current(c).id] = 0
               /\ embedsLife'[Current(c).id] = 1
          \* an embed that was not delivered is followed by no file
          /\ cycle[c].pc = "embed" /\ cycle'[c].pc # "embed"
               /\ embedsLife' = embedsLife
               => ~IssuesFile(c) /\ GoesOnAfterPost(c)
          \* while the file send is awaited the invocation is at that post;
          \* however the send ends, the embed stays and the loop goes on
          /\ cycle[c].pc = "video" /\ cycle'[c] # cycle[c] =>
               /\ embedsSent' = embedsSent
               /\ GoesOnAfterPost(c)]_vars
  /\ [](\A c \in Slots : cycle[c].pc = "video" =>
          /\ cycle[c].hasFoundVideo
          /\ embedsLife[Current(c).id] = 1)
  /\ [](\A p \in Ids : embedsLife[p] <= 1)

\* the file message of the first of two fresh posts is awaited, its embed
\* delivered, the second post not yet looked at
C22_Witness ==
  \E c \in Slots :
    /\ cycle[c].pc = "video"
    /\ cycle[c].idx = 1
    /\ Len(cycle[c].recentTweets) = 2
    /\ embedsLife[cycle[c].recentTweets[1].id] = 1
    /\ cycle[c].recentTweets[2].id \notin lastProcessedIds
    /\ embedsLife[cycle[c].recentTweets[2].id] = 0

(***************************************************************************)
(* C23  When the detail record yields no video, the image is the first     *)
(* detail.photos entry whose URL contains the media-path marker, and       *)
(* whenever detail.photos yields no such entry (absent, empty, or no entry *)
(* with the marker) the first mediaDetails entry of type photo is used     *)
(* with its secure media URL.                                              *)
(***************************************************************************)
\* the image of the embed is entry i of the detail source src
ImageIs(src, i) == media'.image = src /\ media'.entry = i /\ media'.hasFoundImage
NoDetailImage == media'.image = "none" /\ ~media'.hasFoundImage

\* as stated: mediaDetails whenever photos has no entry with the marker
C23_PhotosElseMediaDetails ==
  [][\A photos \in PhotoLists :
       DetailPhotos(photos) /\ ~media.hasFoundVideo =>
         LET md == media.mediaDetails IN
           /\ WithMarker(photos) # {} => ImageIs("photos", First(WithMarker(photos)))
           /\ WithMarker(photos) = {} /\ PhotoEntries(md) # {}
                => ImageIs("mediaDetails", First(PhotoEntries(md)))]_vars

\* C23 as the code has it: mediaDetails is looked at only when photos is
\* absent or empty; a photos list without a marked entry leaves the detail
\* record without an image, whatever mediaDetails holds, and so does a
\* failed download of a detail tier, which skips the images altogether
C23_MediaDetailsOnlyWithoutPhotos ==
  [][/\ \A photos \in PhotoLists :
          DetailPhotos(photos) /\ ~media.hasFoundVideo =>
            LET md == media.mediaDetails IN
              /\ WithMarker(photos) # {} => ImageIs("photos", First(WithMarker(photos)))
              /\ Len(photos) > 0 /\ WithMarker(photos) = {} => NoDetailImage
              /\ Len(photos) = 0 /\ PhotoEntries(md) # {}
                   => ImageIs("mediaDetails", First(PhotoEntries(md)))
              /\ Len(photos) = 0 /\ PhotoEntries(md) = {} => NoDetailImage
     /\ DownloadFails /\ media.tier \in DetailTiers
          => NoDetailImage /\ media'.pc = "rawExtended"]_vars

\* the embed was sent without image although mediaDetails held a photo: the
\* photos list had entries, none of them with the marker
C23_Witness ==
  /\ media.pc = "send"
  /\ media.passedOver
  /\ media.image = "none"
  /\ ~media.hasFoundVideo

(***************************************************************************)
(* C24  At process start, a missing or unparseable persisted file never    *)
(* stops the process, and the record it holds starts empty (empty SeenSet, *)
(* null timestamp), while the other file, when valid, is still loaded;     *)
(* state write failures during a cycle are likewise non-fatal and leave    *)
(* the in-memory state in use.                                             *)
(***************************************************************************)
Unusable(f) == ~f.exists \/ ~f.valid
\* the SeenSet that was loaded from the ids file alone
IdsLoaded(mem, files) ==
  mem.ids = IF Unusable(files.ids) THEN {} ELSE files.ids.data
\* the timestamp that was loaded from the state file alone
TimestampLoaded(mem, files) ==
  mem.ts = IF Unusable(files.st) THEN Null ELSE OrNull(files.st.lastFetchTimestamp)
\* the program has just loaded its files: at its start, or started again
JustStarted == twin.pc = "run" /\ twin.n = 0 /\ ~twin.restarted
\* a write of this step failed (the state file is never reached then): the
\* program goes on, and its memory holds what the invocation did
WriteFailureHarmless ==
  twin'.unsaved /\ ~twin.unsaved =>
    /\ twin'.pc = "run"
    /\ twin'.files.st = twin.files.st
    /\ twin'.r.ts = Some(twin.t)
    /\ twin.r.ids \cup Range(twin'.rPub) \subseteq twin'.r.ids

\* as stated: each file is loaded on its own
C24_EachFileLoadedAlone ==
  /\ [](JustStarted => /\ IdsLoaded(twin.r, twin.files)
                        /\ TimestampLoaded(twin.r, twin.files))
  /\ [][/\ TwinRestart => /\ twin'.pc = "run"
                           /\ IdsLoaded(twin'.r, twin.files)
                           /\ TimestampLoaded(twin'.r, twin.files)
        /\ WriteFailureHarmless]_vars

\* what the load has made of the files, the ids file read first
LoadedInTurn(mem, files) ==
  /\ IdsLoaded(mem, files)
  /\ IF files.ids.exists /\ ~files.ids.valid
       THEN mem.ts = Null
       ELSE TimestampLoaded(mem, files)

\* C24 as the code has it: an ids file that cannot be parsed ends the load
\* (one try block, 45-61), so the timestamp starts null as well, whatever
\* the state file holds; in every other case each record is loaded from its
\* own file or starts empty; a failed write changes nothing in memory
C24_LoadStopsAtBadIdsFile ==
  /\ [](JustStarted => LoadedInTurn(twin.r, twin.files))
  /\ [][/\ TwinRestart => twin'.pc = "run" /\ LoadedInTurn(twin'.r, twin.files)
        /\ WriteFailureHarmless]_vars

\* started again on an ids file that cannot be parsed and a state file that
\* holds a timestamp: the program runs, without seen ids and without timestamp
C24_Witness ==
  /\ twin.pc = "run"
  /\ twin.restarted
  /\ twin.n >= 1
  /\ twin.files.ids.exists /\ ~twin.files.ids.valid
  /\ twin.files.st = WriteState(Some(Tick))
  /\ twin.r = [ids |-> {}, ts |-> Null]

(***************************************************************************)
(* C25  A recent, unseen post that carries no user data is marked seen and *)
(* skipped without any network call or message: it is never published in   *)
(* that cycle or in any later one, and the cycle continues with the next   *)
(* post.                                                                   *)
(***************************************************************************)
\* every post skipped for want of user data is in the SeenSet, and no
\* invocation, the skipping one or a later one, has taken it up (the posts
\* an invocation takes up are those it makes network calls and sends for)
C25_UserlessNeverPublished ==
  /\ feed.pc # "none" => feed.noUser \subseteq feed.mem.ids
  /\ feed.pc = "returned" => Range(feed.published) \cap feed.noUser = {}

\* an invocation that started with an empty SeenSet has skipped post 1 for
\* want of user data, marked it, and published post 2 of the same batch
C25_Witness ==
  /\ feed.pc = "returned"
  /\ feed.n = 1
  /\ feed.before.mem.ids = {}
  /\ feed.noUser = {1}
  /\ feed.published = <<2>>
  /\ feed.mem.ids = {1, 2}
  /\ feed.files.ids = WriteIds({1, 2})

(***************************************************************************)
(* C26  Every video file that a download writes to the local cache is      *)
(* eventually deleted: for each post whose video was downloaded, the       *)
(* cleanup is scheduled and removes the file, also when the embed send or  *)
(* the file send for that post fails, and the cleanup does not raise when  *)
(* the file is already gone.                                               *)
(***************************************************************************)
C26_CachedVideoEventuallyDeleted ==
  /\ \A p \in VideoIds : (p \in cache.files) ~> (p \notin cache.files)
  /\ [](cache.pc # "none" => ~cache.raised)

====
